---- MODULE Spec2Model ----
(***************************************************************************)
(* Weather-oracle backend of sunre-avs: the aggregator's task state        *)
(* machine (internal/aggregator), the MAD consensus engine                 *)
(* (internal/consensus) and the operator signatures.                       *)
(*                                                                         *)
(* Temperatures are integers in thousandths of a degree Celsius.  The Go   *)
(* code computes in float64; the model computes the same expressions in    *)
(* exact arithmetic, carrying the factor 2 of each median of an even       *)
(* number of values instead of dividing.                                   *)
(*                                                                         *)
(* The consensus value is the exact fraction weightedSum / totalWeight in  *)
(* lowest terms; a weight of 1.0 is WeightOne.  The confidence of a result *)
(* is carried as the weights and temperatures the code computes it from.   *)
(* Time is counted in minutes.  A TaskState that CreateTask has replaced   *)
(* in the map is reachable only by a tryAggregate goroutine that already   *)
(* holds its pointer; such goroutines are counted (orphans) and what they  *)
(* write is not kept.                                                      *)
(***************************************************************************)
EXTENDS Integers, Sequences, FiniteSets, Bags, TLC

\* ------------------------------------------------------------------------
\* Bounds of the model
\* ------------------------------------------------------------------------

\* CreateTask calls in one behaviour
MaxCreates == 2
\* ticks of WaitForCompletion's ticker that fit into response_timeout
TimeoutTicks == 1
\* length of the observation lists handed to ReachConsensus directly
MaxLen == 5
\* observations in a list of honest observations mixed with outliers
MaxN == 7
\* the last minute of the clock
MaxNow == 12
\* selectOperators calls in one behaviour
MaxSelects == 3
\* observations (days) in the weather data of a claim
MaxDays == 3
\* triggers of a policy
MaxTriggers == 2
\* sources in the availableAPIs of a distribution
MaxApis == 4
\* generateTaskID calls in one behaviour
MaxIds == 3
\* seconds that pass in one behaviour
MaxClock == 1

\* tasks one Executor is given, one after the other
MaxTasks == 2
\* the longest ttl a Cache is made with, in ticks of its clock
MaxTtl == 2
\* the last tick of the clock of the cache
MaxCacheClock == 4
\* ValidateTask and HandleTask calls on one TaskWorker in one behaviour
MaxWorkerCalls == 3
\* length of the lists of observations of differing confidence
MaxWeighted == 3
\* the last block number
MaxBlock == 1
\* validatePostTaskCreation calls in one behaviour
MaxPosts == 11
\* TaskCompleted events in one behaviour
MaxCompletions == 3

\* ------------------------------------------------------------------------
\* Configuration (cmd/main.go initializeOracle)
\* ------------------------------------------------------------------------

MinOperators == 3
\* the responses ProcessWeatherVerification asks for before it waits
MinCollected == 3
MinSources == 3
\* mad_threshold 2.5 as the fraction MadThresholdNum / MadThresholdDen
MadThresholdNum == 5
MadThresholdDen == 2
\* the floor 0.01 that replaces a zero MAD, in thousandths of a degree
MadFloor == 10
\* the age in minutes up to which an observation is not discounted
AgeFresh == 5
\* the divisor of age/60.0: age penalties are counted in sixtieths
AgeUnit == 60
\* the least age penalty 0.5, in sixtieths
HalfPenalty == 30
\* a confidence of 1.0: confidences are counted in tenths
ConfidenceOne == 10
\* a weight of 1.0: sixtieths times tenths times hundredths
WeightOne == 60000
\* the least weight 0.1
MinWeight == 6000
\* maxConcurrent of NewExecutor
MaxConcurrent == 3
\* MAX_TASKS_PER_BLOCK of AVSTaskHook
MAX_TASKS_PER_BLOCK == 10
\* a payout ratio of 1.0: ratios are counted in hundredths, and a payout in
\* hundredths of a unit of coverage
RatioOne == 100
\* the evidence confidence 0.7 below which a claim is investigated, in tenths
InvestigateBelow == 7
\* days of a month in the calendar of the model, which has twelve such months
DaysPerMonth == 30
\* the days of demo data that handleInsuranceClaim asks for
DemoDays == 10
\* the operators ProcessWeatherVerification runs an executor for
PoolSize == 5
\* the bounds of ValidateTask, in thousandths of a degree
MaxLatitude == 90000
MaxLongitude == 180000
MaxThreshold == 100000

\* ------------------------------------------------------------------------
\* Input domains
\* ------------------------------------------------------------------------

TaskIDs == {"t1"}
\* an operator id that is never assigned: it signs the forged observations
Forger == "op9"
AllOperators == {"op1", "op2", "op3", "op4"}
\* availableOperators arguments of DistributeTask
OperatorLists == {<<"op1", "op2", "op3", "op4">>, <<"op1", "op2">>}
Thresholds == {2000, 2010}

Pending == "Pending"
Distributed == "Distributed"
Executing == "Executing"
Aggregating == "Aggregating"
Completed == "Completed"
Failed == "Failed"

NoTask == [Status |-> "none"]
NoResult == [TaskID |-> "none"]
NoOperator == "none"
\* ExecuteTask has not returned
NotReturned == [err |-> "not returned"]
\* no arguments of ProcessClaim
NoClaim == [claimDate |-> -1]
\* the data sources the DataSourceManager knows
DataSources == {"OpenWeatherMap", "WeatherAPI", "TomorrowIO", "OpenMeteo"}

Abs(x) == IF x < 0 THEN -x ELSE x

RECURSIVE SumSeq(_)
SumSeq(s) == IF s = <<>> THEN 0 ELSE Head(s) + SumSeq(Tail(s))

\* ------------------------------------------------------------------------
\* Signatures (internal/consensus)
\* ------------------------------------------------------------------------

\* fmt "%.2f": a temperature in thousandths rounded to hundredths
Fmt2(t) == IF t >= 0 THEN (t + 5) \div 10 ELSE -((-t + 5) \div 10)

\* SHA-256 of "operator:task:%.2f"; the digest is modelled by its preimage
GenerateSignature(operatorID, taskID, temperature) ==
    <<operatorID, taskID, Fmt2(temperature)>>

VerifySignature(signature, operatorID, taskID, temperature) ==
    signature = GenerateSignature(operatorID, taskID, temperature)

\* ------------------------------------------------------------------------
\* Consensus engine (internal/consensus)
\* ------------------------------------------------------------------------

\* twice the median of a non-empty sequence of numbers
calculateMedian(values) ==
    LET sorted == SortSeq(values, LAMBDA a, b : a < b)
        n == Len(sorted)
    IN IF n % 2 = 0
       THEN sorted[n \div 2] + sorted[n \div 2 + 1]
       ELSE 2 * sorted[n \div 2 + 1]

\* four times the MAD; median2 is twice the median
calculateMAD(values, median2) ==
    LET deviations == [i \in 1..Len(values) |-> Abs(2 * values[i] - median2)]
    IN calculateMedian(deviations)

\* variant of withinThreshold with a strict comparison
withinThreshold_strict(dev2, mad4) ==
    2 * MadThresholdDen * dev2 < MadThresholdNum * mad4

\* the outlier test of filterOutliers: deviation <= madThreshold * mad,
\* with the deviation doubled (dev2) and the MAD quadrupled (mad4)
withinThreshold(dev2, mad4) ==
    2 * MadThresholdDen * dev2 <= MadThresholdNum * mad4

MadOrFloor(mad4) == IF mad4 = 0 THEN 4 * MadFloor ELSE mad4

\* variant of filterOutliers that keeps every observation
filterOutliers_none(dataPoints, median2, mad4) == dataPoints

filterOutliers(dataPoints, median2, mad4) ==
    SelectSeq(dataPoints,
              LAMBDA dp : withinThreshold(Abs(2 * dp.Temperature - median2),
                                          MadOrFloor(mad4)))

Temperatures(dataPoints) ==
    [i \in 1..Len(dataPoints) |-> dataPoints[i].Temperature]

\* variant of quorumAfterFilter that never reports a lost quorum
quorumAfterFilter_skipped(filteredPoints) == TRUE

\* the quorum test ReachConsensus applies to the filtered points
quorumAfterFilter(filteredPoints) == Len(filteredPoints) >= MinSources

\* the wall clock (time.Now), in minutes
VARIABLE now

getSourceReliabilityScore(source) ==
    CASE source = "OpenWeatherMap" -> 95
      [] source = "WeatherAPI" -> 93
      [] source = "TomorrowIO" -> 92
      [] source = "VisualCrossing" -> 90
      [] source = "OpenMeteo" -> 88
      [] OTHER -> 80

\* variant of agePenalty that discounts an observation from its first minute
agePenalty_always(age) ==
    IF age > 0
    THEN IF AgeUnit - age > HalfPenalty THEN AgeUnit - age ELSE HalfPenalty
    ELSE AgeUnit

\* the factor max(0.5, 1 - age/60) of an observation older than 5 minutes,
\* in units of 1/AgeUnit
agePenalty(age) ==
    IF age > AgeFresh
    THEN IF AgeUnit - age > HalfPenalty THEN AgeUnit - age ELSE HalfPenalty
    ELSE AgeUnit

\* weights in units of 1/WeightOne; time.Since reads the clock
calculateReliabilityWeights(dataPoints) ==
    [i \in 1..Len(dataPoints) |->
        LET dp == dataPoints[i]
            confidence == IF dp.Confidence > 0 THEN dp.Confidence
                          ELSE ConfidenceOne
            weight == agePenalty(now - dp.Timestamp) * confidence
                        * getSourceReliabilityScore(dp.Source)
        IN IF weight < MinWeight THEN MinWeight ELSE weight]

RECURSIVE Gcd(_, _)
Gcd(a, b) == IF b = 0 THEN a ELSE Gcd(b, a % b)

\* the fraction num / den (den > 0) in lowest terms
Fraction(num, den) ==
    LET g == Gcd(Abs(num), den)
    IN [num |-> num \div g, den |-> den \div g]

\* consensusTemp and confidence
weightedConsensus(dataPoints) ==
    LET weights == calculateReliabilityWeights(dataPoints)
        weightedSum ==
            SumSeq([i \in 1..Len(dataPoints) |->
                      dataPoints[i].Temperature * weights[i]])
        totalWeight == SumSeq(weights)
    IN IF totalWeight = 0
       THEN [Temperature |->
                Fraction(calculateMedian(Temperatures(dataPoints)), 2),
             Confidence |-> "0.5"]
       ELSE [Temperature |-> Fraction(weightedSum, totalWeight),
             Confidence |-> [weights |-> weights,
                             temperatures |-> Temperatures(dataPoints)]]

\* the confidence of weightedConsensus, in thousandths.  Deviations from the
\* consensus value are counted in tenths of a degree, rounded down, and
\* weights in hundredths, rounded down; the square root is rounded down.

\* |dp.Temperature - consensusTemp| in tenths of a degree
deviation(temperature, consensusTemp) ==
    Abs(temperature * consensusTemp.den - consensusTemp.num)
       \div (consensusTemp.den * 10)

\* math.Sqrt
Sqrt(x) == CHOOSE r \in 0..x : r * r <= x /\ (r + 1) * (r + 1) > x

\* stdDev/10.0 without the bound of math.Min
stdDevPenalty_unbounded(stdDev) == stdDev * 10

\* math.Min(stdDev/10.0, 1.0)
stdDevPenalty(stdDev) == IF stdDev * 10 < 1000 THEN stdDev * 10 ELSE 1000

calculateAgreementScore(temperatures, consensusTemp) ==
    LET totalDeviation ==
            SumSeq([i \in 1..Len(temperatures) |->
                      deviation(temperatures[i], consensusTemp)])
        avgDeviation == totalDeviation \div Len(temperatures)
    IN IF 1000 - avgDeviation * 20 > 0 THEN 1000 - avgDeviation * 20 ELSE 0

\* confidence of weightedConsensus from the weights, the temperatures and
\* the consensus value
confidenceOf(weights, temperatures, consensusTemp) ==
    LET hundredths == [i \in 1..Len(weights) |-> weights[i] \div 600]
        variance ==
            SumSeq([i \in 1..Len(weights) |->
                      hundredths[i] * deviation(temperatures[i], consensusTemp)
                         * deviation(temperatures[i], consensusTemp)])
               \div SumSeq(hundredths)
        confidence == 1000 - stdDevPenalty(Sqrt(variance))
    IN (confidence + calculateAgreementScore(temperatures, consensusTemp))
          \div 2

\* SHA-256 over Source, "%.2f" of Temperature and Signature of every point;
\* the digest is modelled by its preimage
aggregateSignatures(dataPoints) ==
    [i \in 1..Len(dataPoints) |->
        <<dataPoints[i].Source, Fmt2(dataPoints[i].Temperature),
          dataPoints[i].Signature>>]

ReachConsensus(dataPoints) ==
    IF Len(dataPoints) < MinSources
    THEN [err |-> "insufficient data sources", result |-> NoResult]
    ELSE LET median2 == calculateMedian(Temperatures(dataPoints))
             mad4 == calculateMAD(Temperatures(dataPoints), median2)
             filteredPoints == filterOutliers(dataPoints, median2, mad4)
             wc == weightedConsensus(filteredPoints)
         IN IF ~quorumAfterFilter(filteredPoints)
            THEN [err |-> "too many outliers filtered", result |-> NoResult]
            ELSE [err |-> "ok",
                  result |-> [TaskID |-> "",
                              Temperature |-> wc.Temperature,
                              Confidence |-> wc.Confidence,
                              MeetsThreshold |-> FALSE,
                              DataPoints |-> filteredPoints,
                              AggregatedSig |-> aggregateSignatures(filteredPoints),
                              Timestamp |-> now]]

\* variant of meetsThreshold with a strict comparison
meetsThreshold_strict(temperature, threshold) ==
    temperature.num > threshold * temperature.den

\* result.Temperature >= threshold, the temperature a fraction
meetsThreshold(temperature, threshold) ==
    temperature.num >= threshold * temperature.den

VerifyThreshold(result, threshold) ==
    [result EXCEPT !.MeetsThreshold = meetsThreshold(result.Temperature, threshold)]

\* ------------------------------------------------------------------------
\* Aggregator (internal/aggregator)
\* ------------------------------------------------------------------------

\* taskStates        Aggregator.taskStates: task id -> TaskState (NoTask: absent)
\* sleeping          per task id, the tryAggregate goroutines started by
\*                   CollectResponses that have not yet taken the lock
\* aggregatingOn     per task id, the tryAggregate goroutines that released
\*                   the lock after setting Aggregating and hold a pointer to
\*                   the TaskState that is in the map now
\* orphans           tryAggregate goroutines that hold a pointer to a
\*                   TaskState that CreateTask has replaced in the map
\* waiter            per task id, the WaitForCompletion call in progress
\* lastOp            the last call (or goroutine step) and what it returned
\* nCreates          CreateTask calls so far
\* ceInput, ceOutput a direct call of ReachConsensus: its argument and its return
\* ceAgain           the return of a second call with the same argument
\* ceHonest          how many leading observations of ceInput are honest
\* selLog            the selectOperators calls made so far: arguments and return
\* exAssigned        Executor.ExecuteTask: task.AssignedAPIs
\* exPc              per data source, where its fetch goroutine stands
\* exHeld            slots of Executor.semaphore that are taken
\* exDataPoints      dataPoints of fetchTemperatureData
\* exErrors          errors sent to errChan
\* exExpired         taskCtx is done (deadline passed or parent cancelled)
\* exReturn          what ExecuteTask returned
\* exTasks           ExecuteTask calls this executor has been given
\* cpInput, cpOutput a call of ClaimsProcessor.ProcessClaim: arguments, return
\* rtRequest         the TaskRequest handed to the TaskWorker
\* rtOracle          what ProcessWeatherVerification returns for it
\* rtValidated       what ValidateTask returned
\* rtResponse        what HandleTask returned
\* shInput, shOutput operators and sources to shard, and the subsets made
\* idCounter         WeatherOracle.taskCounter
\* idClock           time.Now().Unix()
\* idPc              per caller, where its generateTaskID call stands and
\*                   the counter value it has read
\* idIssued          the task ids returned so far
\* pvExecutors       a call of ProcessWeatherVerification: its task, what
\*                   became of each executor goroutine, collectedCount,
\*                   and what the call went on to
\* caEntries         Cache.entries: per key, Data and ExpiresAt
\* caTtl             Cache.ttl
\* caClock           time.Now() of the cache
\* caGot             what the last Cache.Get returned, and when
\* twInitialized     TaskWorker.initialized
\* twOracle          TaskWorker.oracle: 0 is nil, k the k-th oracle made
\* twCreated         WeatherOracle instances made so far
\* twPc              per caller, where its ValidateTask or HandleTask call
\*                   stands and the oracle it made or used
\* twUsed            the oracles the finished calls have used
\* hkTasks           AVSTaskHook.tasks
\* hkTasksPerBlock   AVSTaskHook.tasksPerBlock
\* hkBlock           block.number
\* hkCompleted       TaskCompleted events emitted, per task hash
\* hkLast            the last hook call and how it ended
VARIABLES taskStates, sleeping, aggregatingOn, orphans, waiter, lastOp, nCreates,
          ceInput, ceOutput, ceAgain, ceHonest, selLog,
          exAssigned, exPc, exHeld, exDataPoints, exErrors, exExpired, exReturn,
          exTasks,
          cpInput, cpOutput,
          rtRequest, rtOracle, rtValidated, rtResponse,
          shInput, shOutput,
          idCounter, idClock, idPc, idIssued,
          pvExecutors,
          caEntries, caTtl, caClock, caGot,
          twInitialized, twOracle, twCreated, twPc, twUsed,
          hkTasks, hkTasksPerBlock, hkBlock, hkCompleted, hkLast

aggVars == <<taskStates, sleeping, aggregatingOn, orphans, waiter, lastOp, nCreates>>
ceVars == <<ceInput, ceOutput, ceAgain, ceHonest, now>>
exVars == <<exAssigned, exPc, exHeld, exDataPoints, exErrors, exExpired, exReturn, exTasks>>
cpVars == <<cpInput, cpOutput>>
rtVars == <<rtRequest, rtOracle, rtValidated, rtResponse>>
shVars == <<shInput, shOutput>>
idVars == <<idCounter, idClock, idPc, idIssued>>
pvVars == <<pvExecutors>>
caVars == <<caEntries, caTtl, caClock, caGot>>
twVars == <<twInitialized, twOracle, twCreated, twPc, twUsed>>
hkVars == <<hkTasks, hkTasksPerBlock, hkBlock, hkCompleted, hkLast>>
vars == <<aggVars, ceVars, selLog, exVars, cpVars, rtVars, shVars, idVars, pvVars, caVars, twVars, hkVars>>

\* the variables outside the aggregator, the consensus engine, the selection
\* log, the executor, the claims processor, the task router, the sharding
\* of sources and the task id generator
notAggVars ==
    <<ceVars, selLog, exVars, cpVars, rtVars, shVars, idVars, pvVars, caVars, twVars, hkVars>>
notCeVars ==
    <<aggVars, selLog, exVars, cpVars, rtVars, shVars, idVars, pvVars, caVars, twVars, hkVars>>
notSelVars ==
    <<aggVars, ceVars, exVars, cpVars, rtVars, shVars, idVars, pvVars, caVars, twVars, hkVars>>
notExVars ==
    <<aggVars, ceVars, selLog, cpVars, rtVars, shVars, idVars, pvVars, caVars, twVars, hkVars>>
notCpVars ==
    <<aggVars, ceVars, selLog, exVars, rtVars, shVars, idVars, pvVars, caVars, twVars, hkVars>>
notRtVars ==
    <<aggVars, ceVars, selLog, exVars, cpVars, shVars, idVars, pvVars, caVars, twVars, hkVars>>
notShVars ==
    <<aggVars, ceVars, selLog, exVars, cpVars, rtVars, idVars, pvVars, caVars, twVars, hkVars>>
notIdVars ==
    <<aggVars, ceVars, selLog, exVars, cpVars, rtVars, shVars, pvVars, caVars, twVars, hkVars>>
goVars == <<aggVars, ceVars, selLog, exVars, cpVars, rtVars, shVars, idVars, pvVars>>
notCaVars == <<goVars, twVars, hkVars>>
notTwVars == <<goVars, caVars, hkVars>>
notHkVars == <<goVars, caVars, twVars>>
notAggPvVars ==
    <<ceVars, selLog, exVars, cpVars, rtVars, shVars, idVars, caVars, twVars, hkVars>>

Idle == [pc |-> "idle", ticks |-> 0]

Op(op, t, operator, err, result) ==
    [op |-> op, task |-> t, operator |-> operator, err |-> err, result |-> result]

\* stand-in for the first 8 bytes of SHA-256(taskID)
Sha256Prefix(taskID) ==
    IF taskID = "t1" THEN <<0, 0, 0, 0, 0, 0, 18, 52>>
                     ELSE <<0, 0, 0, 0, 0, 0, 7, 201>>

RECURSIVE FoldSeed(_, _)
FoldSeed(seed, bytes) ==
    IF bytes = <<>> THEN seed
    ELSE FoldSeed(seed * 256 + Head(bytes), Tail(bytes))

generateSeed(taskID) == FoldSeed(0, Sha256Prefix(taskID))

\* stand-in for math/rand: a linear congruential generator
RngNext(s) == (s * 75 + 74) % 65537

Swap(seq, i, j) == [seq EXCEPT ![i] = seq[j], ![j] = seq[i]]

\* rand.Shuffle: Fisher-Yates from the last index down, j drawn below i+1
\* (i is the 1-based index of the position being filled)
RECURSIVE Shuffle(_, _, _)
Shuffle(seq, i, s) ==
    IF i <= 1 THEN seq
    ELSE LET r == RngNext(s)
         IN Shuffle(Swap(seq, i, (r % i) + 1), i - 1, r)

\* variant of selectOperators that shuffles with a generator shared by all
\* calls instead of one seeded from the task id
selectOperators_shared(availableOperators, taskID) ==
    LET shuffled == Shuffle(availableOperators, Len(availableOperators),
                            Len(selLog))
        numToSelect == IF MinOperators > Len(shuffled) THEN Len(shuffled)
                       ELSE MinOperators
    IN SubSeq(shuffled, 1, numToSelect)

selectOperators(availableOperators, taskID) ==
    LET shuffled == Shuffle(availableOperators, Len(availableOperators),
                            generateSeed(taskID))
        numToSelect == IF MinOperators > Len(shuffled) THEN Len(shuffled)
                       ELSE MinOperators
    IN SubSeq(shuffled, 1, numToSelect)

NewTaskState(taskID, threshold) ==
    [Task |-> [TaskID |-> taskID, Threshold |-> threshold],
     Status |-> Pending,
     Operators |-> <<>>,
     Responses |-> <<>>,
     ConsensusResult |-> NoResult,
     \* history: transitions Executing -> Aggregating and calls of
     \* ReachConsensus made on this TaskState
     nAggregating |-> 0,
     nConsensus |-> 0]

CreateTask(t, threshold) ==
    /\ nCreates < MaxCreates
    /\ nCreates' = nCreates + 1
    /\ taskStates' = [taskStates EXCEPT ![t] = NewTaskState(t, threshold)]
    \* a goroutine inside aggregate keeps its pointer to the replaced state
    /\ orphans' = orphans + aggregatingOn[t]
    /\ aggregatingOn' = [aggregatingOn EXCEPT ![t] = 0]
    /\ lastOp' = Op("CreateTask", t, NoOperator, "ok", NoResult)
    /\ UNCHANGED <<sleeping, waiter, notAggVars>>

DistributeTask(t, availableOperators) ==
    LET taskState == taskStates[t]
        selectedOperators == selectOperators(availableOperators, t)
        ret(err) == Op("DistributeTask", t, NoOperator, err, NoResult)
    IN /\ UNCHANGED <<sleeping, aggregatingOn, orphans, waiter, nCreates, notAggVars>>
       /\ IF taskState = NoTask
          THEN /\ lastOp' = ret("not found")
               /\ UNCHANGED taskStates
          ELSE IF taskState.Status # Pending
          THEN /\ lastOp' = ret("not in pending state")
               /\ UNCHANGED taskStates
          ELSE IF Len(selectedOperators) < MinOperators
          THEN /\ lastOp' = ret("insufficient operators")
               /\ UNCHANGED taskStates
          ELSE /\ taskStates' = [taskStates EXCEPT
                                   ![t].Operators = selectedOperators,
                                   ![t].Status = Distributed]
               /\ lastOp' = ret("ok")

\* the observations an operator may send for a task
Signed(signer, taskID, temperature) ==
    [Source |-> "OpenMeteo", Temperature |-> temperature,
     Timestamp |-> 0, Confidence |-> ConfidenceOne,
     Signature |-> GenerateSignature(signer, taskID, temperature)]

DataPointLists(operatorID, taskID) ==
    { <<>>,
      <<Signed(operatorID, taskID, 2000)>>,
      <<Signed(operatorID, taskID, 2000), Signed(operatorID, taskID, 6000)>>,
      <<Signed(operatorID, taskID, 2000), Signed(Forger, taskID, 2004)>> }

Responses(operatorID, taskID) ==
    { [OperatorID |-> operatorID, TaskID |-> taskID, DataPoints |-> dps] :
        dps \in DataPointLists(operatorID, taskID) }

\* variants of the three tests of CollectResponses that let every call pass
acceptsResponses_always(status) == TRUE

isValidOperator_any(operators, operatorID) == TRUE

isDuplicate_never(responses, operatorID) == FALSE

\* the status test of CollectResponses
acceptsResponses(status) == status = Distributed \/ status = Executing

isValidOperator(operators, operatorID) ==
    \E i \in 1..Len(operators) : operators[i] = operatorID

isDuplicate(responses, operatorID) ==
    \E i \in 1..Len(responses) : responses[i].OperatorID = operatorID

\* CollectResponses as it writes the aggregator
CollectResponsesInto(t, response) ==
    LET taskState == taskStates[t]
        ret(err) == Op("CollectResponses", t, response.OperatorID, err, NoResult)
    IN /\ UNCHANGED <<aggregatingOn, orphans, waiter, nCreates>>
       /\ IF taskState = NoTask
          THEN /\ lastOp' = ret("not found")
               /\ UNCHANGED <<taskStates, sleeping>>
          ELSE IF ~acceptsResponses(taskState.Status)
          THEN /\ lastOp' = ret("not in correct state")
               /\ UNCHANGED <<taskStates, sleeping>>
          ELSE IF ~isValidOperator(taskState.Operators, response.OperatorID)
          THEN /\ lastOp' = ret("operator not assigned")
               /\ taskStates' = [taskStates EXCEPT ![t].Status = Executing]
               /\ UNCHANGED sleeping
          ELSE IF isDuplicate(taskState.Responses, response.OperatorID)
          THEN /\ lastOp' = ret("duplicate response")
               /\ taskStates' = [taskStates EXCEPT ![t].Status = Executing]
               /\ UNCHANGED sleeping
          ELSE /\ taskStates' = [taskStates EXCEPT
                                   ![t].Status = Executing,
                                   ![t].Responses = Append(@, response)]
               /\ sleeping' = IF Len(taskState.Responses) + 1 >= MinOperators
                              THEN [sleeping EXCEPT ![t] = @ + 1]
                              ELSE sleeping
               /\ lastOp' = ret("ok")

CollectResponses(t, response) ==
    /\ CollectResponsesInto(t, response)
    /\ UNCHANGED notAggVars

\* variant of verifyDataPoint that accepts every signature
verifyDataPoint_unchecked(dp, operatorID, taskID) == TRUE

verifyDataPoint(dp, operatorID, taskID) ==
    VerifySignature(dp.Signature, operatorID, taskID, dp.Temperature)

\* the verified observations of all responses, in the order of the responses
RECURSIVE validDataPoints(_, _)
validDataPoints(responses, taskID) ==
    IF responses = <<>> THEN <<>>
    ELSE SelectSeq(Head(responses).DataPoints,
                   LAMBDA dp : verifyDataPoint(dp, Head(responses).OperatorID, taskID))
         \o validDataPoints(Tail(responses), taskID)

\* Aggregator.aggregateSignatures: SHA-256 over OperatorID, Signature and
\* Timestamp of every response, modelled by its preimage; the responses of
\* the model carry their OperatorID only
aggregateResponseSignatures(responses) ==
    [i \in 1..Len(responses) |-> responses[i].OperatorID]

\* err, the result, and whether ReachConsensus was called
aggregate(taskState) ==
    LET allDataPoints == validDataPoints(taskState.Responses, taskState.Task.TaskID)
    IN IF Len(allDataPoints) < MinSources
       THEN [err |-> "insufficient valid data points", result |-> NoResult,
             called |-> 0]
       ELSE LET r == ReachConsensus(allDataPoints)
            IN IF r.err # "ok"
               THEN [err |-> r.err, result |-> NoResult, called |-> 1]
               ELSE [err |-> "ok",
                     result |->
                        [VerifyThreshold(r.result, taskState.Task.Threshold)
                           EXCEPT !.TaskID = taskState.Task.TaskID,
                                  !.AggregatedSig =
                                     aggregateResponseSignatures(taskState.Responses)],
                     called |-> 1]

\* variant of mayAggregate without the test of the status
mayAggregate_anyStatus(taskState) ==
    /\ taskState # NoTask
    /\ Len(taskState.Responses) >= MinOperators

\* the tests under which tryAggregate goes on to aggregate
mayAggregate(taskState) ==
    /\ taskState # NoTask
    /\ taskState.Status = Executing
    /\ Len(taskState.Responses) >= MinOperators

\* tryAggregate from the end of its sleep to the first unlock
TryAggregateBegin(t) ==
    /\ sleeping[t] > 0
    /\ sleeping' = [sleeping EXCEPT ![t] = @ - 1]
    /\ UNCHANGED <<orphans, waiter, nCreates, notAggVars>>
    /\ IF ~mayAggregate(taskStates[t])
       THEN /\ lastOp' = Op("tryAggregate", t, NoOperator, "return", NoResult)
            /\ UNCHANGED <<taskStates, aggregatingOn>>
       ELSE /\ taskStates' = [taskStates EXCEPT ![t].Status = Aggregating,
                                               ![t].nAggregating = @ + 1]
            /\ aggregatingOn' = [aggregatingOn EXCEPT ![t] = @ + 1]
            /\ lastOp' = Op("tryAggregate", t, NoOperator, "aggregating", NoResult)

\* tryAggregate from the call of aggregate to its return
TryAggregateEnd(t) ==
    /\ aggregatingOn[t] > 0
    /\ aggregatingOn' = [aggregatingOn EXCEPT ![t] = @ - 1]
    /\ UNCHANGED <<sleeping, orphans, waiter, nCreates, notAggVars>>
    /\ LET r == aggregate(taskStates[t])
       IN IF r.err # "ok"
          THEN /\ taskStates' = [taskStates EXCEPT
                                   ![t].Status = Failed,
                                   ![t].nConsensus = @ + r.called]
               /\ lastOp' = Op("aggregate", t, NoOperator, r.err, NoResult)
          ELSE /\ taskStates' = [taskStates EXCEPT
                                   ![t].ConsensusResult = r.result,
                                   ![t].Status = Completed,
                                   ![t].nConsensus = @ + r.called]
               /\ lastOp' = Op("aggregate", t, NoOperator, "ok", r.result)

\* the same on a TaskState that is no longer in the map: nothing the
\* aggregator can reach changes
TryAggregateEndOrphan ==
    /\ orphans > 0
    /\ orphans' = orphans - 1
    /\ lastOp' = Op("aggregate", "none", NoOperator, "orphan", NoResult)
    /\ UNCHANGED <<taskStates, sleeping, aggregatingOn, waiter, nCreates, notAggVars>>

\* WaitForCompletion: the call, up to the first tick of its ticker
WaitStart(t) ==
    /\ waiter[t].pc = "idle"
    /\ waiter' = [waiter EXCEPT ![t] = [pc |-> "waiting", ticks |-> 0]]
    /\ lastOp' = Op("WaitForCompletion", t, NoOperator, "waiting", NoResult)
    /\ UNCHANGED <<taskStates, sleeping, aggregatingOn, orphans, nCreates, notAggVars>>

\* variant of afterDeadline for a deadline that never passes
afterDeadline_never(ticks) == FALSE

\* time.Now().After(deadline) at the ticks-th tick of the 500 ms ticker
afterDeadline(ticks) == ticks > TimeoutTicks

\* WaitForCompletion: one tick of the ticker (case <-ticker.C)
WaitTick(t) ==
    LET taskState == taskStates[t]
        ticks == waiter[t].ticks + 1
        return(err, result) ==
            /\ waiter' = [waiter EXCEPT ![t] = Idle]
            /\ lastOp' = Op("WaitForCompletion", t, NoOperator, err, result)
    IN /\ waiter[t].pc = "waiting"
       /\ UNCHANGED <<taskStates, sleeping, aggregatingOn, orphans, nCreates, notAggVars>>
       /\ IF taskState = NoTask THEN return("not found", NoResult)
          ELSE IF taskState.Status = Completed
          THEN return("ok", taskState.ConsensusResult)
          ELSE IF taskState.Status = Failed THEN return("failed", NoResult)
          ELSE IF afterDeadline(ticks) THEN return("timeout", NoResult)
          ELSE /\ waiter' = [waiter EXCEPT ![t].ticks = ticks]
               /\ lastOp' = Op("WaitForCompletion", t, NoOperator, "waiting", NoResult)

\* WaitForCompletion: the context is cancelled (case <-ctx.Done())
WaitCancel(t) ==
    /\ waiter[t].pc = "waiting"
    /\ waiter' = [waiter EXCEPT ![t] = Idle]
    /\ lastOp' = Op("WaitForCompletion", t, NoOperator, "cancelled", NoResult)
    /\ UNCHANGED <<taskStates, sleeping, aggregatingOn, orphans, nCreates, notAggVars>>

AggInit ==
    /\ taskStates = [t \in TaskIDs |-> NoTask]
    /\ sleeping = [t \in TaskIDs |-> 0]
    /\ aggregatingOn = [t \in TaskIDs |-> 0]
    /\ orphans = 0
    /\ waiter = [t \in TaskIDs |-> Idle]
    /\ lastOp = Op("none", "none", NoOperator, "ok", NoResult)
    /\ nCreates = 0

NotCalled == [err |-> "not called", result |-> NoResult]

CeIdle ==
    /\ ceInput = <<>>
    /\ ceOutput = NotCalled
    /\ ceAgain = NotCalled
    /\ ceHonest = 0
    /\ now = 0

SelIdle == selLog = <<>>

ExIdle ==
    /\ exAssigned = <<>>
    /\ exPc = [source \in DataSources |-> "none"]
    /\ exHeld = 0
    /\ exDataPoints = <<>>
    /\ exErrors = 0
    /\ exExpired = FALSE
    /\ exReturn = NotReturned
    /\ exTasks = 0

CpIdle ==
    /\ cpInput = NoClaim
    /\ cpOutput = NotCalled

NoRequest == [TaskId |-> "none"]

RtIdle ==
    /\ rtRequest = NoRequest
    /\ rtOracle = NotCalled
    /\ rtValidated = NotCalled
    /\ rtResponse = NotCalled

ShIdle ==
    /\ shInput = <<>>
    /\ shOutput = NotCalled

IdIdle ==
    /\ idCounter = 0
    /\ idClock = 0
    /\ idPc = <<>>
    /\ idIssued = <<>>

NoVerification ==
    [task |-> "none", outcome |-> [o \in AllOperators |-> "none"],
     collectedCount |-> 0, ret |-> "none"]

PvIdle == pvExecutors = NoVerification

NoEntry == [ExpiresAt |-> -1]
CacheKeys == {"OpenMeteo:40:-74", "WeatherAPI:40:-74"}

CaIdle ==
    /\ caEntries = [key \in CacheKeys |-> NoEntry]
    /\ caTtl = 0
    /\ caClock = 0
    /\ caGot = NotCalled

Callers == {"h1", "h2"}

TwIdle ==
    /\ twInitialized = FALSE
    /\ twOracle = 0
    /\ twCreated = 0
    /\ twPc = [c \in Callers |-> [pc |-> "idle", oracle |-> 0]]
    /\ twUsed = <<>>

TaskHashes == {"hash1", "hash2"}
NoTaskInfo ==
    [requester |-> "0x0", blockNumber |-> 0, paid |-> FALSE, completed |-> FALSE]

HkIdle ==
    /\ hkTasks = [taskHash \in TaskHashes |-> NoTaskInfo]
    /\ hkTasksPerBlock = [b \in 0..MaxBlock |-> 0]
    /\ hkBlock = 0
    /\ hkCompleted = [taskHash \in TaskHashes |-> 0]
    /\ hkLast = NotCalled

\* the task router, the sharding of sources, the task id generator and
\* ProcessWeatherVerification have not been called
OthersIdle ==
    /\ RtIdle
    /\ ShIdle
    /\ IdIdle
    /\ PvIdle
    /\ CaIdle
    /\ TwIdle
    /\ HkIdle

Init ==
    /\ AggInit
    /\ CeIdle
    /\ SelIdle
    /\ ExIdle
    /\ CpIdle
    /\ OthersIdle

Next ==
    \/ \E t \in TaskIDs, th \in Thresholds : CreateTask(t, th)
    \/ \E t \in TaskIDs, ops \in OperatorLists : DistributeTask(t, ops)
    \/ \E t \in TaskIDs, o \in AllOperators :
          \E r \in Responses(o, t) : CollectResponses(t, r)
    \/ \E t \in TaskIDs : TryAggregateBegin(t)
    \/ \E t \in TaskIDs : TryAggregateEnd(t)
    \/ TryAggregateEndOrphan
    \/ \E t \in TaskIDs : WaitStart(t)
    \/ \E t \in TaskIDs : WaitTick(t)
    \/ \E t \in TaskIDs : WaitCancel(t)

\* the aggregator under any interleaving of its calls and goroutines
Spec == Init /\ [][Next]_vars

\* the responses of an operator that carry no observation or one
LiveResponses(operatorID, taskID) ==
    { r \in Responses(operatorID, taskID) : Len(r.DataPoints) <= 1 }

\* the calls and goroutines that write the TaskState: the aggregator
\* without its WaitForCompletion calls, which only read it, on one
\* threshold, the operator lists that suffice and the shortest responses
NextLive ==
    \/ \E t \in TaskIDs :
          CreateTask(t, CHOOSE th \in Thresholds :
                           \A other \in Thresholds : th <= other)
    \/ \E t \in TaskIDs :
          \E ops \in { l \in OperatorLists : Len(l) >= MinOperators } :
             DistributeTask(t, ops)
    \/ \E t \in TaskIDs, o \in AllOperators :
          \E r \in LiveResponses(o, t) : CollectResponses(t, r)
    \/ \E t \in TaskIDs : TryAggregateBegin(t)
    \/ \E t \in TaskIDs : TryAggregateEnd(t)
    \/ TryAggregateEndOrphan

\* every tryAggregate goroutine that CollectResponses started gets to run:
\* it wakes up from its sleep, and its call of aggregate returns
Fairness ==
    \A t \in TaskIDs :
       /\ WF_vars(TryAggregateBegin(t))
       /\ WF_vars(TryAggregateEnd(t))

SpecLive == Init /\ [][NextLive]_vars /\ Fairness

\* ------------------------------------------------------------------------
\* WeatherOracle.ProcessWeatherVerification: one executor goroutine per
\* operator, and the loop that hands their responses to the aggregator
\* ------------------------------------------------------------------------

NoDataPoints == "no valid data points collected"
FetchFailed == "failed to fetch temperature data"

\* what fetchTemperatureData may return to ExecuteTask: an error, or the
\* observations of the sources that answered
Fetched(operatorID, taskID) ==
    { [err |-> "all sources failed", dataPoints |-> <<>>] }
    \cup { [err |-> "ok", dataPoints |-> r.DataPoints] :
              r \in LiveResponses(operatorID, taskID) }

\* ExecuteTask without its test of len(dataPoints)
ExecuteTask_unchecked(operatorID, taskID, fetched) ==
    IF fetched.err # "ok" THEN [err |-> FetchFailed]
    ELSE [err |-> "ok",
          response |-> [OperatorID |-> operatorID, TaskID |-> taskID,
                        DataPoints |-> fetched.dataPoints]]

\* Executor.ExecuteTask, from what fetchTemperatureData returned
ExecuteTask(operatorID, taskID, fetched) ==
    IF fetched.err # "ok" THEN [err |-> FetchFailed]
    ELSE IF Len(fetched.dataPoints) = 0 THEN [err |-> NoDataPoints]
    ELSE [err |-> "ok",
          response |-> [OperatorID |-> operatorID, TaskID |-> taskID,
                        DataPoints |-> fetched.dataPoints]]

\* DistributeTask has returned nil: the goroutines are started
StartExecutors(t) ==
    /\ pvExecutors = NoVerification
    /\ lastOp = Op("DistributeTask", t, NoOperator, "ok", NoResult)
    /\ pvExecutors' = [NoVerification EXCEPT
                         !.task = t,
                         !.outcome = [o \in AllOperators |-> "running"]]
    /\ UNCHANGED <<aggVars, notAggPvVars>>

\* the goroutine of one operator ends: an error goes to errorChan and is
\* logged; a response goes to responseChan and on to CollectResponses
ExecutorGoroutine(operatorID, fetched) ==
    LET t == pvExecutors.task
        r == ExecuteTask(operatorID, t, fetched)
    IN /\ t # "none"
       /\ pvExecutors.outcome[operatorID] = "running"
       /\ IF r.err # "ok"
          THEN /\ pvExecutors' = [pvExecutors EXCEPT !.outcome[operatorID] = r.err]
               /\ UNCHANGED <<aggVars, notAggPvVars>>
          ELSE /\ CollectResponsesInto(t, r.response)
               /\ pvExecutors' =
                     [pvExecutors EXCEPT
                        !.outcome[operatorID] = "ok",
                        !.collectedCount = IF lastOp'.err = "ok" THEN @ + 1 ELSE @]
               /\ UNCHANGED notAggPvVars

\* the loop has seen every goroutine: the call returns its error, or goes
\* on to WaitForCompletion
FinishCollecting ==
    /\ pvExecutors.task # "none"
    /\ pvExecutors.ret = "none"
    /\ \A o \in AllOperators : pvExecutors.outcome[o] # "running"
    /\ pvExecutors' =
          [pvExecutors EXCEPT
             !.ret = IF pvExecutors.collectedCount < MinCollected
                     THEN "insufficient responses"
                     ELSE "WaitForCompletion"]
    /\ UNCHANGED <<aggVars, notAggPvVars>>

NextVerify ==
    \/ \E t \in TaskIDs :
          CreateTask(t, CHOOSE th \in Thresholds :
                           \A other \in Thresholds : th <= other)
    \/ \E t \in TaskIDs :
          \E ops \in { l \in OperatorLists : Len(l) >= MinOperators } :
             DistributeTask(t, ops)
    \/ \E t \in TaskIDs : StartExecutors(t)
    \/ \E o \in AllOperators :
          \E fetched \in Fetched(o, pvExecutors.task) : ExecutorGoroutine(o, fetched)
    \/ FinishCollecting
    \/ \E t \in TaskIDs : TryAggregateBegin(t)
    \/ \E t \in TaskIDs : TryAggregateEnd(t)
    \/ TryAggregateEndOrphan

SpecVerify == Init /\ [][NextVerify]_vars

\* ------------------------------------------------------------------------
\* The consensus engine called directly on bounded observation lists
\* ------------------------------------------------------------------------

CeTemperatures == {2000, 2020, 2025, 2070, 6000}

CeDataPoint(source, temperature) ==
    [Source |-> source, Temperature |-> temperature,
     Timestamp |-> 0, Confidence |-> ConfidenceOne,
     Signature |-> GenerateSignature("op1", "t1", temperature)]

\* one observation per temperature, and a second source reporting 2000
CeDataPoints ==
    { CeDataPoint("OpenMeteo", x) : x \in CeTemperatures }
        \cup { CeDataPoint("WeatherAPI", 2000) }

SeqsUpTo(S, n) == UNION { [1..k -> S] : k \in 0..n }

InitConsensus ==
    /\ AggInit
    /\ ceInput \in SeqsUpTo(CeDataPoints, MaxLen)
    /\ ceOutput = NotCalled
    /\ ceAgain = NotCalled
    /\ ceHonest = 0
    /\ now = 0
    /\ SelIdle
    /\ ExIdle
    /\ CpIdle
    /\ OthersIdle

CallReachConsensus ==
    /\ ceOutput = NotCalled
    /\ ceOutput' = ReachConsensus(ceInput)
    /\ UNCHANGED <<ceInput, ceAgain, ceHonest, now, notCeVars>>

NextConsensus == CallReachConsensus

SpecConsensus == InitConsensus /\ [][NextConsensus]_vars

\* ------------------------------------------------------------------------
\* The consensus engine on observations of differing confidence, source and
\* age
\* ------------------------------------------------------------------------

\* confidences 0, 0.1, 0.5 and 1.0
Confidences == {0, 1, 5, ConfidenceOne}

WeightedPoints ==
    { [CeDataPoint(source, x) EXCEPT !.Confidence = confidence] :
        source \in {"OpenMeteo", "WeatherAPI"}, x \in {2000, 2020},
        confidence \in Confidences }

InitWeighted ==
    /\ AggInit
    /\ \E n \in MinSources..MaxWeighted : ceInput \in [1..n -> WeightedPoints]
    /\ ceOutput = NotCalled
    /\ ceAgain = NotCalled
    /\ ceHonest = 0
    /\ now \in {0, MaxNow}
    /\ SelIdle
    /\ ExIdle
    /\ CpIdle
    /\ OthersIdle

SpecWeighted == InitWeighted /\ [][NextConsensus]_vars

\* ------------------------------------------------------------------------
\* The consensus engine on honest observations mixed with outliers: of N
\* observations the last N \div 2 are outliers
\* ------------------------------------------------------------------------

HonestTemperatures == {2000, 2020, 2070}
OutlierTemperatures == {-2000, 2200, 6000}

HonestPoints == { CeDataPoint("OpenMeteo", x) : x \in HonestTemperatures }
OutlierPoints == { CeDataPoint("OpenWeatherMap", x) : x \in OutlierTemperatures }

InitRobust ==
    /\ AggInit
    /\ \E n \in 1..MaxN :
         \E honest \in [1..((n + 1) \div 2) -> HonestPoints],
            outliers \in [1..(n \div 2) -> OutlierPoints] :
             /\ ceInput = honest \o outliers
             /\ ceHonest = Len(honest)
    /\ ceOutput = NotCalled
    /\ ceAgain = NotCalled
    /\ now = 0
    /\ SelIdle
    /\ ExIdle
    /\ CpIdle
    /\ OthersIdle

NextRobust == CallReachConsensus

SpecRobust == InitRobust /\ [][NextRobust]_vars

\* ------------------------------------------------------------------------
\* The consensus engine called twice on one list while the clock advances
\* ------------------------------------------------------------------------

\* observations measured at minute 0 and at minute 3
TimedPoints ==
    { [CeDataPoint("OpenMeteo", x) EXCEPT !.Timestamp = ts] :
        x \in {2000, 2020}, ts \in {0, 3} }

ClockSteps == {2, 7}

InitTwice ==
    /\ AggInit
    /\ ceInput \in [1..MinSources -> TimedPoints]
    /\ ceOutput = NotCalled
    /\ ceAgain = NotCalled
    /\ ceHonest = 0
    /\ now = 3
    /\ SelIdle
    /\ ExIdle
    /\ CpIdle
    /\ OthersIdle

\* time passes
Tick(minutes) ==
    /\ now + minutes <= MaxNow
    /\ now' = now + minutes
    /\ UNCHANGED <<ceInput, ceOutput, ceAgain, ceHonest, notCeVars>>

\* the second call of ReachConsensus with the same argument
CallReachConsensusAgain ==
    /\ ceOutput # NotCalled
    /\ ceAgain = NotCalled
    /\ ceAgain' = ReachConsensus(ceInput)
    /\ UNCHANGED <<ceInput, ceOutput, ceHonest, now, notCeVars>>

NextTwice ==
    \/ CallReachConsensus
    \/ \E minutes \in ClockSteps : Tick(minutes)
    \/ CallReachConsensusAgain

SpecTwice == InitTwice /\ [][NextTwice]_vars

\* ------------------------------------------------------------------------
\* Operator selection called repeatedly
\* ------------------------------------------------------------------------

SelectTaskIDs == {"t1", "t2"}

SelectLists == { <<"op1", "op2", "op3", "op4">>,
                 <<"op4", "op3", "op2", "op1">>,
                 <<"op1", "op2">> }

InitSelect ==
    /\ AggInit
    /\ CeIdle
    /\ SelIdle
    /\ ExIdle
    /\ CpIdle
    /\ OthersIdle

\* the selection DistributeTask makes for a task id and a list of operators
CallSelectOperators(taskID, availableOperators) ==
    /\ Len(selLog) < MaxSelects
    /\ selLog' = Append(selLog,
                        [taskID |-> taskID,
                         availableOperators |-> availableOperators,
                         selected |-> selectOperators(availableOperators, taskID)])
    /\ UNCHANGED notSelVars

NextSelect ==
    \E taskID \in SelectTaskIDs, availableOperators \in SelectLists :
        CallSelectOperators(taskID, availableOperators)

SpecSelect == InitSelect /\ [][NextSelect]_vars

\* ------------------------------------------------------------------------
\* Executor (internal/executor): one ExecuteTask call of operator op1 for
\* task t1, its fetch goroutines and its context
\* ------------------------------------------------------------------------

\* task.AssignedAPIs; "Nowhere" is a name the DataSourceManager does not know
AssignedLists ==
    { <<>>,
      <<"Nowhere">>,
      <<"OpenMeteo">>,
      <<"OpenMeteo", "Nowhere", "WeatherAPI">>,
      <<"OpenWeatherMap", "WeatherAPI", "TomorrowIO", "OpenMeteo">> }

\* what a data source may report
FetchedTemperatures == {2000}

\* the call up to the start of the goroutines: one per known source
InitExecutor ==
    /\ AggInit
    /\ CeIdle
    /\ SelIdle
    /\ CpIdle
    /\ OthersIdle
    /\ exAssigned \in AssignedLists
    /\ exPc = [source \in DataSources |->
                 IF \E i \in 1..Len(exAssigned) : exAssigned[i] = source
                 THEN "queued" ELSE "none"]
    /\ exHeld = 0
    /\ exDataPoints = <<>>
    /\ exErrors = 0
    /\ exExpired = FALSE
    /\ exReturn = NotReturned
    /\ exTasks = 1

\* the semaphore without its capacity: every send succeeds at once
AcquireSemaphore_unbounded(source) ==
    /\ exPc[source] = "queued"
    /\ exHeld' = exHeld + 1
    /\ exPc' = [exPc EXCEPT ![source] = "fetching"]
    /\ UNCHANGED <<exAssigned, exDataPoints, exErrors, exExpired, exReturn, exTasks, notExVars>>

\* case e.semaphore <- struct{}{}
AcquireSemaphore(source) ==
    /\ exPc[source] = "queued"
    /\ exHeld < MaxConcurrent
    /\ exHeld' = exHeld + 1
    /\ exPc' = [exPc EXCEPT ![source] = "fetching"]
    /\ UNCHANGED <<exAssigned, exDataPoints, exErrors, exExpired, exReturn, exTasks, notExVars>>

\* case <-ctx.Done() while waiting for the semaphore
GiveUpSemaphore(source) ==
    /\ exPc[source] = "queued"
    /\ exExpired
    /\ exPc' = [exPc EXCEPT ![source] = "error"]
    /\ exErrors' = exErrors + 1
    /\ UNCHANGED <<exAssigned, exHeld, exDataPoints, exExpired, exReturn, exTasks, notExVars>>

\* GetTemperature returns an observation, which is signed and appended
FetchSucceeds(source, temperature) ==
    /\ exPc[source] = "fetching"
    /\ exPc' = [exPc EXCEPT ![source] = "done"]
    /\ exHeld' = exHeld - 1
    /\ exDataPoints' =
          Append(exDataPoints,
                 [Source |-> source, Temperature |-> temperature,
                  Timestamp |-> now, Confidence |-> ConfidenceOne,
                  Signature |-> GenerateSignature("op1", "t1", temperature)])
    /\ UNCHANGED <<exAssigned, exErrors, exExpired, exReturn, exTasks, notExVars>>

\* GetTemperature returns an error
FetchFails(source) ==
    /\ exPc[source] = "fetching"
    /\ exPc' = [exPc EXCEPT ![source] = "error"]
    /\ exHeld' = exHeld - 1
    /\ exErrors' = exErrors + 1
    /\ UNCHANGED <<exAssigned, exDataPoints, exExpired, exReturn, exTasks, notExVars>>

\* taskTimeout passes, or the caller cancels its context
ContextDone ==
    /\ ~exExpired
    /\ exExpired' = TRUE
    /\ UNCHANGED <<exAssigned, exPc, exHeld, exDataPoints, exErrors, exReturn, exTasks, notExVars>>

allGoroutinesDone == \A source \in DataSources : exPc[source] \notin {"queued", "fetching"}

\* fetchTemperatureData takes case <-done, and ExecuteTask returns
ReturnAfterDone ==
    /\ exReturn = NotReturned
    /\ allGoroutinesDone
    /\ exReturn' =
          IF Len(exDataPoints) = 0 /\ exErrors > 0
          THEN [err |-> "all sources failed", obtained |-> exDataPoints]
          ELSE IF Len(exDataPoints) = 0
          THEN [err |-> "no valid data points collected", obtained |-> exDataPoints]
          ELSE [err |-> "ok", obtained |-> exDataPoints,
                response |-> [OperatorID |-> "op1", TaskID |-> "t1",
                              DataPoints |-> exDataPoints]]
    /\ UNCHANGED <<exAssigned, exPc, exHeld, exDataPoints, exErrors, exExpired, exTasks, notExVars>>

\* fetchTemperatureData takes case <-ctx.Done(), and ExecuteTask returns
ReturnAfterContextDone ==
    /\ exReturn = NotReturned
    /\ exExpired
    /\ exReturn' = [err |-> "context done", obtained |-> exDataPoints]
    /\ UNCHANGED <<exAssigned, exPc, exHeld, exDataPoints, exErrors, exExpired, exTasks, notExVars>>

\* the same Executor is given its next task once the goroutines of the
\* previous one have ended; e.semaphore is a field of the Executor and is
\* kept, all else is local to the call
StartNextTask(assigned) ==
    /\ exReturn # NotReturned
    /\ allGoroutinesDone
    /\ exTasks < MaxTasks
    /\ exTasks' = exTasks + 1
    /\ exAssigned' = assigned
    /\ exPc' = [source \in DataSources |->
                  IF \E i \in 1..Len(assigned) : assigned[i] = source
                  THEN "queued" ELSE "none"]
    /\ exDataPoints' = <<>>
    /\ exErrors' = 0
    /\ exExpired' = FALSE
    /\ exReturn' = NotReturned
    /\ UNCHANGED <<exHeld, notExVars>>

NextExecutor ==
    \/ \E source \in DataSources : AcquireSemaphore(source)
    \/ \E source \in DataSources : GiveUpSemaphore(source)
    \/ \E source \in DataSources, temperature \in FetchedTemperatures :
          FetchSucceeds(source, temperature)
    \/ \E source \in DataSources : FetchFails(source)
    \/ ContextDone
    \/ ReturnAfterDone
    \/ ReturnAfterContextDone
    \/ \E assigned \in AssignedLists : StartNextTask(assigned)

SpecExecutor == InitExecutor /\ [][NextExecutor]_vars

\* ------------------------------------------------------------------------
\* Claims processor (internal/insurance).  Dates are day numbers; a response
\* carries ClaimStatus, TriggeredPerils and PayoutAmount, and not its
\* ClaimID, WeatherData, VerificationHash and Timestamp.
\* ------------------------------------------------------------------------

ClaimApproved == "approved"
ClaimRejected == "rejected"
ClaimPartial == "partial"
ClaimInvestigate == "investigate"

\* a *float64: one that is not set, and one that points to a value
Nil == [set |-> FALSE, value |-> 0]

Pointer(x) == [set |-> TRUE, value |-> x]

\* time.Time.Month
Month(date) == ((date \div DaysPerMonth) % 12) + 1

average(nums) == IF nums = <<>> THEN Fraction(0, 1)
                 ELSE Fraction(SumSeq(nums), Len(nums))

RECURSIVE min(_)
min(nums) ==
    IF nums = <<>> THEN 0
    ELSE IF Len(nums) = 1 THEN nums[1]
    ELSE LET m == min(Tail(nums))
         IN IF m < Head(nums) THEN m ELSE Head(nums)

RECURSIVE max(_)
max(nums) ==
    IF nums = <<>> THEN 0
    ELSE IF Len(nums) = 1 THEN nums[1]
    ELSE LET m == max(Tail(nums))
         IN IF m > Head(nums) THEN m ELSE Head(nums)

\* the longest run of observations above the threshold: consecutiveCount
\* and maxConsecutive after the observations up to the i-th
RECURSIVE consecutiveRuns(_, _, _)
consecutiveRuns(weatherData, threshold, i) ==
    IF i = 0 THEN [consecutiveCount |-> 0, maxConsecutive |-> 0]
    ELSE LET before == consecutiveRuns(weatherData, threshold, i - 1)
         IN IF weatherData[i].Temperature > threshold
            THEN [consecutiveCount |-> before.consecutiveCount + 1,
                  maxConsecutive |->
                     IF before.consecutiveCount + 1 > before.maxConsecutive
                     THEN before.consecutiveCount + 1
                     ELSE before.maxConsecutive]
            ELSE [consecutiveCount |-> 0,
                  maxConsecutive |-> before.maxConsecutive]

\* variant of checkConsecutiveDays that counts the observations above the
\* threshold wherever they stand
checkConsecutiveDays_total(weatherData, threshold, requiredDays) ==
    Cardinality({ i \in 1..Len(weatherData) :
                    weatherData[i].Temperature > threshold })

checkConsecutiveDays(weatherData, threshold, requiredDays) ==
    consecutiveRuns(weatherData, threshold, Len(weatherData)).maxConsecutive

\* variant of isInTimeWindow for which a window that wraps around the end of
\* the year holds no month
isInTimeWindow_nowrap(date, window) ==
    IF window.StartMonth = 0 /\ window.EndMonth = 0 THEN TRUE
    ELSE Month(date) >= window.StartMonth /\ Month(date) <= window.EndMonth

isInTimeWindow(date, window) ==
    IF window.StartMonth = 0 /\ window.EndMonth = 0 THEN TRUE
    ELSE IF window.StartMonth <= window.EndMonth
    THEN Month(date) >= window.StartMonth /\ Month(date) <= window.EndMonth
    ELSE Month(date) >= window.StartMonth \/ Month(date) <= window.EndMonth

\* conditionsMet and the evidence; Confidence keeps its zero value
checkTriggerConditions(trigger, weatherData, claimDate) ==
    LET conditions == trigger.Conditions
        temps == Temperatures(weatherData)
        evidence == [AverageTemp |-> average(temps),
                     MinTemp |-> min(temps),
                     MaxTemp |-> max(temps),
                     ConsecutiveDays |-> 0,
                     Confidence |-> 0]
        consecutiveDays == checkConsecutiveDays(weatherData,
                                                conditions.TemperatureMax.value,
                                                conditions.ConsecutiveDays)
        counted == [evidence EXCEPT !.ConsecutiveDays = consecutiveDays]
    IN IF Len(temps) = 0
       THEN [conditionsMet |-> FALSE,
             evidence |-> [evidence EXCEPT !.AverageTemp = Fraction(0, 1)]]
       ELSE IF conditions.TemperatureMin # Nil
               /\ min(temps) < conditions.TemperatureMin.value
       THEN [conditionsMet |-> FALSE, evidence |-> evidence]
       ELSE IF conditions.TemperatureMax # Nil
               /\ max(temps) > conditions.TemperatureMax.value
       THEN IF conditions.ConsecutiveDays > 0
            THEN IF consecutiveDays < conditions.ConsecutiveDays
                 THEN [conditionsMet |-> FALSE, evidence |-> counted]
                 ELSE [conditionsMet |->
                          isInTimeWindow(claimDate, conditions.TimeWindow),
                       evidence |-> counted]
            ELSE [conditionsMet |->
                     isInTimeWindow(claimDate, conditions.TimeWindow),
                  evidence |-> evidence]
       ELSE [conditionsMet |-> FALSE, evidence |-> evidence]

\* the triggers whose conditions are met, in the order of the policy
RECURSIVE evaluateTriggersOf(_, _, _)
evaluateTriggersOf(triggers, weatherData, claimDate) ==
    IF triggers = <<>> THEN <<>>
    ELSE LET trigger == Head(triggers)
             checked == checkTriggerConditions(trigger, weatherData, claimDate)
             rest == evaluateTriggersOf(Tail(triggers), weatherData, claimDate)
         IN IF checked.conditionsMet
            THEN <<[Peril |-> trigger.Peril,
                    TriggerID |-> trigger.TriggerID,
                    ConditionsMet |-> TRUE,
                    PayoutRatio |-> trigger.PayoutRatio,
                    Evidence |-> checked.evidence]>> \o rest
            ELSE rest

evaluateTriggers(policy, weatherData, claimDate) ==
    evaluateTriggersOf(policy.Triggers, weatherData, claimDate)

\* maxPayoutRatio after the loop over the perils
RECURSIVE maxPayoutRatio(_)
maxPayoutRatio(triggeredPerils) ==
    IF triggeredPerils = <<>> THEN 0
    ELSE LET before == maxPayoutRatio(SubSeq(triggeredPerils, 1,
                                             Len(triggeredPerils) - 1))
             last == triggeredPerils[Len(triggeredPerils)].PayoutRatio
         IN IF last > before THEN last ELSE before

\* variant of calculatePayout that adds the payout ratios of the perils
calculatePayout_sum(policy, triggeredPerils) ==
    policy.CoverageAmount
      * SumSeq([i \in 1..Len(triggeredPerils) |-> triggeredPerils[i].PayoutRatio])

calculatePayout(policy, triggeredPerils) ==
    IF Len(triggeredPerils) = 0 THEN 0
    ELSE policy.CoverageAmount * maxPayoutRatio(triggeredPerils)

determineClaimStatus(triggeredPerils, payoutAmount) ==
    IF Len(triggeredPerils) = 0 THEN ClaimRejected
    ELSE IF payoutAmount = 0 THEN ClaimRejected
    ELSE IF \E i \in 1..Len(triggeredPerils) :
              triggeredPerils[i].Evidence.Confidence < InvestigateBelow
    THEN ClaimInvestigate
    ELSE IF \E i \in 1..Len(triggeredPerils) :
              triggeredPerils[i].PayoutRatio < RatioOne
    THEN ClaimPartial
    ELSE ClaimApproved

\* variant of outsidePolicyPeriod that puts the first and the last day of the
\* policy outside
outsidePolicyPeriod_inclusive(claimDate, policy) ==
    claimDate <= policy.StartDate \/ claimDate >= policy.EndDate

\* claimDate.Before(policy.StartDate) || claimDate.After(policy.EndDate)
outsidePolicyPeriod(claimDate, policy) ==
    claimDate < policy.StartDate \/ claimDate > policy.EndDate

ProcessClaim(policy, weatherData, claimDate) ==
    IF outsidePolicyPeriod(claimDate, policy)
    THEN [err |-> "claim date outside policy period",
          result |-> [PolicyID |-> policy.PolicyID,
                      ClaimStatus |-> ClaimRejected,
                      TriggeredPerils |-> <<>>,
                      PayoutAmount |-> 0]]
    ELSE LET triggeredPerils == evaluateTriggers(policy, weatherData, claimDate)
             payoutAmount == calculatePayout(policy, triggeredPerils)
             claimStatus == determineClaimStatus(triggeredPerils, payoutAmount)
         IN [err |-> "ok",
             result |-> [PolicyID |-> policy.PolicyID,
                         ClaimStatus |-> claimStatus,
                         TriggeredPerils |-> triggeredPerils,
                         PayoutAmount |-> payoutAmount]]

NoWindow == [StartMonth |-> 0, EndMonth |-> 0]

Trigger(triggerID, peril, tempMin, tempMax, days, window, payoutRatio) ==
    [TriggerID |-> triggerID, Peril |-> peril,
     Conditions |-> [TemperatureMin |-> tempMin,
                     TemperatureMax |-> tempMax,
                     ConsecutiveDays |-> days,
                     TimeWindow |-> window],
     PayoutRatio |-> payoutRatio]

\* the triggers a policy may declare: heat above 35 degrees on two days in
\* a row from June to August at half the coverage; heat above 35 degrees at
\* the full coverage; frost below -10 degrees at the full coverage; heat
\* above 35 degrees at no payout; heat above 35 degrees from November to
\* February at the full coverage
Triggers ==
    { Trigger("heat", "heat_wave", Nil, Pointer(35000), 2,
              [StartMonth |-> 6, EndMonth |-> 8], 50),
      Trigger("hot", "heat_wave", Nil, Pointer(35000), 0, NoWindow, 100),
      Trigger("frost", "frost", Pointer(-10000), Nil, 0, NoWindow, 100),
      Trigger("free", "heat_wave", Nil, Pointer(35000), 0, NoWindow, 0),
      Trigger("winter", "heat_wave", Nil, Pointer(35000), 0,
              [StartMonth |-> 11, EndMonth |-> 2], 100) }

Policies ==
    { [PolicyID |-> "p1", CoverageAmount |-> coverage,
       StartDate |-> 120, EndDate |-> 450, Triggers |-> triggers] :
         coverage \in {1000, 3000}, triggers \in SeqsUpTo(Triggers, MaxTriggers) }

\* the day before the policy starts, its first day (May), days of July,
\* August, December, January and March, its last day, and the day after
ClaimDates == {119, 120, 180, 210, 330, 360, 420, 450, 451}

WeatherPoints == { CeDataPoint("OpenMeteo", x) : x \in {-12000, 30000, 36000} }

InitClaims ==
    /\ AggInit
    /\ CeIdle
    /\ SelIdle
    /\ ExIdle
    /\ OthersIdle
    /\ cpInput \in [policy : Policies,
                     weatherData : SeqsUpTo(WeatherPoints, MaxDays),
                     claimDate : ClaimDates]
    /\ cpOutput = NotCalled

CallProcessClaim ==
    /\ cpOutput = NotCalled
    /\ cpOutput' = ProcessClaim(cpInput.policy, cpInput.weatherData,
                                cpInput.claimDate)
    /\ UNCHANGED <<cpInput, notCpVars>>

NextClaims == CallProcessClaim

SpecClaims == InitClaims /\ [][NextClaims]_vars

\* ProcessClaim on triggers that bound wind and humidity.  The sources
\* report a WeatherResponse; the executor keeps its temperature, source and
\* timestamp in the DataPoint it signs and drops the other fields.

\* TriggerConditions with no bound set
NoConditions ==
    [TemperatureMin |-> Nil, TemperatureMax |-> Nil, ConsecutiveDays |-> 0,
     HumidityMin |-> Nil, HumidityMax |-> Nil, WindSpeedMin |-> Nil,
     PrecipitationMin |-> Nil, PrecipitationMax |-> Nil,
     TimeWindow |-> NoWindow]

\* wind of 50 and more; humidity above 80; heat above 35 degrees together
\* with wind of 50 and more
PerilTriggers ==
    { [TriggerID |-> "wind", Peril |-> "hurricane", PayoutRatio |-> 100,
       Conditions |-> [NoConditions EXCEPT !.WindSpeedMin = Pointer(50000)]],
      [TriggerID |-> "humid", Peril |-> "excess_rain", PayoutRatio |-> 100,
       Conditions |-> [NoConditions EXCEPT !.HumidityMax = Pointer(80000)]],
      [TriggerID |-> "hotwind", Peril |-> "heat_wave", PayoutRatio |-> 100,
       Conditions |-> [NoConditions EXCEPT !.TemperatureMax = Pointer(35000),
                                           !.WindSpeedMin = Pointer(50000)]] }

WeatherResponses ==
    [Temperature : {30000, 36000}, Humidity : {50000, 90000},
     WindSpeed : {10000, 60000}, Timestamp : {0}, Source : {"OpenMeteo"}]

\* the DataPoint fetchTemperatureData makes of a WeatherResponse
dataPointOf(weatherData) ==
    CeDataPoint(weatherData.Source, weatherData.Temperature)

InitPerils ==
    /\ AggInit
    /\ CeIdle
    /\ SelIdle
    /\ ExIdle
    /\ OthersIdle
    /\ \E triggers \in SeqsUpTo(PerilTriggers, MaxTriggers),
          observed \in SeqsUpTo(WeatherResponses, MaxDays) :
          cpInput = [policy |-> [PolicyID |-> "p1", CoverageAmount |-> 1000,
                                 StartDate |-> 120, EndDate |-> 450,
                                 Triggers |-> triggers],
                     observed |-> observed,
                     weatherData |-> [i \in 1..Len(observed) |->
                                        dataPointOf(observed[i])],
                     claimDate |-> 180]
    /\ cpOutput = NotCalled

SpecPerils == InitPerils /\ [][NextClaims]_vars

\* ------------------------------------------------------------------------
\* Task router (cmd/main.go, TaskWorker).  A payload is the JSON text of a
\* request: syntax says whether it decodes ("not json": not at all, or
\* with a type that is no string; "mistyped": a field other than type has
\* the wrong JSON type; "ok"), and the other fields are what it decodes to,
\* absent fields being zero.  latitude and longitude are those of location,
\* and of claim_request.policy.location in an insurance claim.  The oracle
\* is taken to be initialised.
\* ------------------------------------------------------------------------

TaskTypeWeatherCheck == "weather_check"
TaskTypeInsuranceClaim == "insurance_claim"
TaskTypeLiveWeatherDemo == "live_weather_demo"

validateWeatherLocation(payload) ==
    IF payload.latitude < -MaxLatitude \/ payload.latitude > MaxLatitude
    THEN "invalid latitude"
    ELSE IF payload.longitude < -MaxLongitude
            \/ payload.longitude > MaxLongitude
    THEN "invalid longitude"
    ELSE "ok"

validateWeatherCheck(payload) ==
    IF validateWeatherLocation(payload) # "ok"
    THEN validateWeatherLocation(payload)
    ELSE IF payload.threshold < -MaxThreshold
            \/ payload.threshold > MaxThreshold
    THEN "invalid temperature threshold"
    ELSE "ok"

validateInsuranceClaim(payload) ==
    IF payload.policy.PolicyID = "" THEN "policy ID is required"
    ELSE IF payload.policy.CoverageAmount <= 0 THEN "invalid coverage amount"
    ELSE IF Len(payload.policy.Triggers) = 0
    THEN "policy must have at least one trigger"
    ELSE "ok"

\* the error of ValidateTask, "ok" for nil
ValidateTask(t) ==
    IF t.Payload.syntax = "not json" THEN "invalid task payload"
    ELSE IF t.Payload.type = TaskTypeWeatherCheck
    THEN IF t.Payload.syntax = "mistyped"
         THEN "invalid weather check request"
         ELSE validateWeatherCheck(t.Payload)
    ELSE IF t.Payload.type = TaskTypeInsuranceClaim
    THEN IF t.Payload.syntax = "mistyped"
         THEN "invalid insurance claim request"
         ELSE validateInsuranceClaim(t.Payload)
    ELSE IF t.Payload.type = TaskTypeLiveWeatherDemo
    THEN IF t.Payload.syntax = "mistyped"
         THEN "invalid live weather demo request"
         ELSE validateWeatherLocation(t.Payload)
    ELSE "unknown task type"

\* the temperature of day i of a demo scenario, without the sine terms
DemoTemperature(scenario, i) ==
    IF scenario = "heat_wave"
    THEN IF i >= 2 /\ i <= 6 THEN 36000 + (i - 2) * 1500 ELSE 28000
    ELSE IF scenario = "cold_snap"
    THEN IF i >= 3 /\ i <= 5 THEN -12000 - (i - 3) * 2000 ELSE 5000
    ELSE IF scenario = "normal" THEN 20000
    ELSE 22000

DemoSources == <<"OpenMeteo", "WeatherAPI", "VisualCrossing">>

\* one observation per source for each of the days 0..days-1
GenerateDemoWeatherData(days, scenario) ==
    [k \in 1..(days * Len(DemoSources)) |->
       LET i == (k - 1) \div Len(DemoSources)
           source == DemoSources[((k - 1) % Len(DemoSources)) + 1]
       IN [Source |-> source,
           Temperature |-> DemoTemperature(scenario, i),
           Timestamp |-> 0, Confidence |-> ConfidenceOne - 1,
           Signature |-> <<"sig", source, i>>]]

\* what ProcessWeatherVerification returns when the oracle fails, and when
\* MinSources sources agree on one temperature
ProcessWeatherVerification(oracle, threshold) ==
    IF oracle.err # "ok"
    THEN [err |-> oracle.err, result |-> NoResult]
    ELSE [err |-> "ok",
          result |-> [Temperature |-> Fraction(oracle.temperature, 1),
                      MeetsThreshold |-> oracle.temperature >= threshold,
                      DataPoints |->
                         [i \in 1..MinSources |->
                            CeDataPoint(DemoSources[i], oracle.temperature)]]]

Succeeded(t, result) ==
    [err |-> "ok", result |-> [TaskId |-> t.TaskId, Result |-> result]]

RpcError(err) == [err |-> err, result |-> NoResult]

handleWeatherCheck(t, oracle) ==
    LET verified == ProcessWeatherVerification(oracle, t.Payload.threshold)
    IN IF t.Payload.syntax = "mistyped"
       THEN RpcError("invalid weather check request")
       ELSE IF verified.err # "ok"
       THEN RpcError("weather verification failed")
       ELSE Succeeded(t, [type |-> "weather_check_response",
                          temperature |-> verified.result.Temperature,
                          meets_threshold |-> verified.result.MeetsThreshold,
                          data_points |-> Len(verified.result.DataPoints)])

handleInsuranceClaim(t, oracle) ==
    LET verified == ProcessWeatherVerification(oracle, 0)
        weatherData == IF t.Payload.demoMode
                       THEN GenerateDemoWeatherData(DemoDays,
                                                    t.Payload.demoScenario)
                       ELSE verified.result.DataPoints
    IN IF t.Payload.syntax = "mistyped"
       THEN RpcError("invalid insurance claim request")
       ELSE IF ~t.Payload.demoMode /\ verified.err # "ok"
       THEN RpcError("failed to fetch weather data")
       ELSE Succeeded(t, ProcessClaim(t.Payload.policy, weatherData,
                                      t.Payload.claimDate).result)

handleLiveWeatherDemo(t, oracle) ==
    LET verified == ProcessWeatherVerification(oracle, 0)
    IN IF t.Payload.syntax = "mistyped"
       THEN RpcError("invalid live weather demo request")
       ELSE IF verified.err # "ok"
       THEN RpcError("failed to get current weather")
       ELSE Succeeded(t, [type |-> "live_weather_demo_response",
                          temperature |-> verified.result.Temperature,
                          total_sources |-> Len(verified.result.DataPoints)])

HandleTask(t, oracle) ==
    IF t.Payload.syntax = "not json" THEN RpcError("invalid task payload")
    ELSE IF t.Payload.type = TaskTypeWeatherCheck
    THEN handleWeatherCheck(t, oracle)
    ELSE IF t.Payload.type = TaskTypeInsuranceClaim
    THEN handleInsuranceClaim(t, oracle)
    ELSE IF t.Payload.type = TaskTypeLiveWeatherDemo
    THEN handleLiveWeatherDemo(t, oracle)
    ELSE RpcError("unknown task type")

ZeroPolicy ==
    [PolicyID |-> "", CoverageAmount |-> 0, StartDate |-> 0, EndDate |-> 0,
     Triggers |-> <<>>]

ZeroPayload ==
    [syntax |-> "ok", type |-> "", latitude |-> 0, longitude |-> 0,
     threshold |-> 0, policy |-> ZeroPolicy, claimDate |-> 0,
     demoMode |-> FALSE, demoScenario |-> ""]

\* the values on and next to the bounds lo and hi
Around(lo, hi) == {lo - 1, lo, hi, hi + 1}

Latitudes == Around(-MaxLatitude, MaxLatitude)
Longitudes == Around(-MaxLongitude, MaxLongitude)

WeatherCheckPayloads ==
    { [ZeroPayload EXCEPT !.type = TaskTypeWeatherCheck, !.latitude = lat,
                          !.longitude = lon, !.threshold = threshold] :
        lat \in Latitudes, lon \in Longitudes,
        threshold \in Around(-MaxThreshold, MaxThreshold) }

LiveWeatherDemoPayloads ==
    { [ZeroPayload EXCEPT !.type = TaskTypeLiveWeatherDemo, !.latitude = lat,
                          !.longitude = lon] :
        lat \in Latitudes, lon \in Longitudes }

HotTrigger == Trigger("hot", "heat_wave", Nil, Pointer(35000), 0, NoWindow, 100)

\* a trigger whose payout ratio is 1.5
OverTrigger == Trigger("over", "heat_wave", Nil, Pointer(35000), 0, NoWindow, 150)

RouterPolicies ==
    { [PolicyID |-> policyID, CoverageAmount |-> coverage,
       StartDate |-> 120, EndDate |-> 450, Triggers |-> triggers] :
         policyID \in {"", "p1"}, coverage \in {0, 1000},
         triggers \in {<<>>, <<HotTrigger>>, <<OverTrigger>>} }

InsuranceClaimPayloads ==
    { [ZeroPayload EXCEPT !.type = TaskTypeInsuranceClaim,
                          !.latitude = lat, !.policy = policy,
                          !.claimDate = claimDate, !.demoMode = demo[1],
                          !.demoScenario = demo[2]] :
        lat \in {MaxLatitude, MaxLatitude + 1}, policy \in RouterPolicies,
        claimDate \in {119, 180},
        demo \in {<<FALSE, "">>, <<TRUE, "heat_wave">>, <<TRUE, "">>} }

Payloads ==
    LET typed == WeatherCheckPayloads \cup LiveWeatherDemoPayloads
                   \cup InsuranceClaimPayloads
        untyped == { ZeroPayload, [ZeroPayload EXCEPT !.type = "forecast"] }
        sample == { payload \in typed :
                      payload.latitude = MaxLatitude
                        /\ payload.longitude \in {0, MaxLongitude}
                        /\ payload.threshold \in {0, MaxThreshold}
                        /\ payload.claimDate \in {0, 180} }
    IN typed \cup untyped
         \cup { [payload EXCEPT !.syntax = syntax] :
                  payload \in sample \cup untyped,
                  syntax \in {"not json", "mistyped"} }

OracleOutcomes ==
    { [err |-> "insufficient responses", temperature |-> 0] }
      \cup { [err |-> "ok", temperature |-> x] : x \in {30000, 36000} }

InitRouter ==
    /\ AggInit
    /\ CeIdle
    /\ SelIdle
    /\ ExIdle
    /\ CpIdle
    /\ ShIdle
    /\ IdIdle
    /\ PvIdle
    /\ CaIdle
    /\ TwIdle
    /\ HkIdle
    /\ rtRequest \in [TaskId : {"a", "b"}, Payload : Payloads]
    /\ rtOracle \in OracleOutcomes
    /\ rtValidated = NotCalled
    /\ rtResponse = NotCalled

CallValidateTask ==
    /\ rtValidated = NotCalled
    /\ rtValidated' = RpcError(ValidateTask(rtRequest))
    /\ UNCHANGED <<rtRequest, rtOracle, rtResponse, notRtVars>>

CallHandleTask ==
    /\ rtResponse = NotCalled
    /\ rtResponse' = HandleTask(rtRequest, rtOracle)
    /\ UNCHANGED <<rtRequest, rtOracle, rtValidated, notRtVars>>

NextRouter ==
    \/ CallValidateTask
    \/ CallHandleTask

SpecRouter == InitRouter /\ [][NextRouter]_vars

\* ------------------------------------------------------------------------
\* Sharding of the sources over the operators: createTaskDistributions of
\* the aggregator and getAPISubsetForOperator of the oracle
\* ------------------------------------------------------------------------

\* apisPerOperator of both functions
apisPerOperator(availableAPIs, numOperators) ==
    IF Len(availableAPIs) \div numOperators < 1 THEN 1
    ELSE Len(availableAPIs) \div numOperators

\* apiIndex when the loop of createTaskDistributions reaches operator i
RECURSIVE apiIndex(_, _, _)
apiIndex(i, operators, availableAPIs) ==
    IF i = 1 THEN 0
    ELSE LET before == apiIndex(i - 1, operators, availableAPIs)
             per == apisPerOperator(availableAPIs, Len(operators))
             after == IF before + per < Len(availableAPIs)
                      THEN before + per ELSE Len(availableAPIs)
         IN IF after >= Len(availableAPIs) THEN 0 ELSE after

\* AssignedAPIs of every distribution, in the order of the operators
createTaskDistributions(operators, availableAPIs) ==
    [i \in 1..Len(operators) |->
       LET first == apiIndex(i, operators, availableAPIs)
           per == apisPerOperator(availableAPIs, Len(operators))
           last == IF first + per < Len(availableAPIs)
                   THEN first + per ELSE Len(availableAPIs)
       IN SubSeq(availableAPIs, first + 1, last)]

getAPISubsetForOperator(operatorIndex, apis, numOperators) ==
    LET per == apisPerOperator(apis, numOperators)
        capped(end) == IF end > Len(apis) THEN Len(apis) ELSE end
        start == operatorIndex * per
    IN IF Len(apis) = 0 THEN <<>>
       ELSE IF start >= Len(apis)
       THEN SubSeq(apis, 1, capped(per))
       ELSE SubSeq(apis, start + 1, capped(start + per))

Pool == <<"op1", "op2", "op3", "op4", "op5">>

\* the sequences over S without repetition, up to the length n
DistinctSeqsUpTo(S, n) ==
    { l \in SeqsUpTo(S, n) :
        \A i, j \in 1..Len(l) : i # j => l[i] # l[j] }

InitShard ==
    /\ AggInit
    /\ CeIdle
    /\ SelIdle
    /\ ExIdle
    /\ CpIdle
    /\ RtIdle
    /\ IdIdle
    /\ PvIdle
    /\ CaIdle
    /\ TwIdle
    /\ HkIdle
    /\ shInput \in [operators : { SubSeq(Pool, 1, n) : n \in 1..PoolSize },
                     availableAPIs : DistinctSeqsUpTo(DataSources, MaxApis)]
    /\ shOutput = NotCalled

CallCreateTaskDistributions ==
    /\ shOutput.err = "not called"
    /\ shOutput' = [err |-> "ok",
                    result |-> createTaskDistributions(shInput.operators,
                                                       shInput.availableAPIs)]
    /\ UNCHANGED <<shInput, notShVars>>

\* the loop of ProcessWeatherVerification over the operators
CallGetAPISubsets ==
    /\ shOutput.err = "not called"
    /\ shOutput' = [err |-> "ok",
                    result |->
                       [i \in 1..Len(shInput.operators) |->
                          getAPISubsetForOperator(i - 1, shInput.availableAPIs,
                                                  Len(shInput.operators))]]
    /\ UNCHANGED <<shInput, notShVars>>

NextShard ==
    \/ CallCreateTaskDistributions
    \/ CallGetAPISubsets

SpecShard == InitShard /\ [][NextShard]_vars

\* ------------------------------------------------------------------------
\* WeatherOracle.generateTaskID called from concurrent HandleTask calls.
\* The function takes no lock: the read and the write of taskCounter++ and
\* the read of taskCounter in Sprintf are steps of their own.
\* ------------------------------------------------------------------------

InitIds ==
    /\ AggInit
    /\ CeIdle
    /\ SelIdle
    /\ ExIdle
    /\ CpIdle
    /\ RtIdle
    /\ ShIdle
    /\ PvIdle
    /\ CaIdle
    /\ TwIdle
    /\ HkIdle
    /\ idCounter = 0
    /\ idClock = 0
    /\ idPc = [c \in Callers |-> [pc |-> "idle", read |-> 0]]
    /\ idIssued = <<>>

\* the calls that have begun
IdCalls ==
    Len(idIssued) + Cardinality({ c \in Callers : idPc[c].pc # "idle" })

\* o.taskCounter++ : the load
ReadCounter(c) ==
    /\ idPc[c].pc = "idle"
    /\ IdCalls < MaxIds
    /\ idPc' = [idPc EXCEPT ![c] = [pc |-> "read", read |-> idCounter]]
    /\ UNCHANGED <<idCounter, idClock, idIssued, notIdVars>>

\* o.taskCounter++ : the store
WriteCounter(c) ==
    /\ idPc[c].pc = "read"
    /\ idCounter' = idPc[c].read + 1
    /\ idPc' = [idPc EXCEPT ![c].pc = "written"]
    /\ UNCHANGED <<idClock, idIssued, notIdVars>>

\* fmt.Sprintf("task_%d_%d", time.Now().Unix(), o.taskCounter)
FormatTaskID(c) ==
    /\ idPc[c].pc = "written"
    /\ idIssued' = Append(idIssued, <<"task", idClock, idCounter>>)
    /\ idPc' = [idPc EXCEPT ![c] = [pc |-> "idle", read |-> 0]]
    /\ UNCHANGED <<idCounter, idClock, notIdVars>>

\* a second passes
ClockTick ==
    /\ idClock < MaxClock
    /\ idClock' = idClock + 1
    /\ UNCHANGED <<idCounter, idPc, idIssued, notIdVars>>

NextIds ==
    \/ \E c \in Callers : ReadCounter(c)
    \/ \E c \in Callers : WriteCounter(c)
    \/ \E c \in Callers : FormatTaskID(c)
    \/ ClockTick

SpecIds == InitIds /\ [][NextIds]_vars

\* ------------------------------------------------------------------------
\* The cache of a weather source (Cache of the datasources package): Get and
\* Set called by the fetches, cleanup run by the goroutine NewCache starts
\* ------------------------------------------------------------------------

\* NewCache(ttl)
InitCache ==
    /\ AggInit
    /\ CeIdle
    /\ SelIdle
    /\ ExIdle
    /\ CpIdle
    /\ RtIdle
    /\ ShIdle
    /\ IdIdle
    /\ PvIdle
    /\ TwIdle
    /\ HkIdle
    /\ caEntries = [key \in CacheKeys |-> NoEntry]
    /\ caTtl \in 1..MaxTtl
    /\ caClock = 0
    /\ caGot = NotCalled

\* a test of expiry that never finds an entry expired
expired_never(at, expiresAt) == FALSE

\* time.Now().After(entry.ExpiresAt), and now.After(entry.ExpiresAt)
expired(at, expiresAt) == at > expiresAt

CacheGet(key) ==
    LET entry == caEntries[key]
    IN /\ caGot' = IF entry = NoEntry \/ expired(caClock, entry.ExpiresAt)
                   THEN [err |-> "miss", key |-> key, at |-> caClock]
                   ELSE [err |-> "hit", key |-> key, at |-> caClock,
                         data |-> entry.Data]
       /\ UNCHANGED <<caEntries, caTtl, caClock, notCaVars>>

\* Set with the response a source has just returned
CacheSet(key, temperature) ==
    /\ caEntries' =
          [caEntries EXCEPT
             ![key] = [Data |-> [Temperature |-> temperature,
                                 Timestamp |-> caClock, Source |-> key],
                       ExpiresAt |-> caClock + caTtl]]
    /\ UNCHANGED <<caTtl, caClock, caGot, notCaVars>>

\* one round of the loop of cleanup
CacheCleanup ==
    /\ caEntries' =
          [key \in CacheKeys |->
             IF caEntries[key] # NoEntry
                  /\ expired(caClock, caEntries[key].ExpiresAt)
             THEN NoEntry ELSE caEntries[key]]
    /\ UNCHANGED <<caTtl, caClock, caGot, notCaVars>>

CacheTick ==
    /\ caClock < MaxCacheClock
    /\ caClock' = caClock + 1
    /\ UNCHANGED <<caEntries, caTtl, caGot, notCaVars>>

NextCache ==
    \/ \E key \in CacheKeys : CacheGet(key)
    \/ \E key \in CacheKeys, temperature \in FetchedTemperatures :
          CacheSet(key, temperature)
    \/ CacheCleanup
    \/ CacheTick

SpecCache == InitCache /\ [][NextCache]_vars

\* ------------------------------------------------------------------------
\* TaskWorker.initializeOracle at the head of concurrent ValidateTask and
\* HandleTask calls.  TaskWorker has no lock: the read of initialized, the
\* making of the oracle and the writes of oracle and initialized are steps
\* of their own.
\* ------------------------------------------------------------------------

InitWorker ==
    /\ AggInit
    /\ CeIdle
    /\ SelIdle
    /\ ExIdle
    /\ CpIdle
    /\ RtIdle
    /\ ShIdle
    /\ IdIdle
    /\ PvIdle
    /\ CaIdle
    /\ HkIdle
    /\ TwIdle

\* the calls that have begun
WorkerCalls ==
    Len(twUsed) + Cardinality({ c \in Callers : twPc[c].pc # "idle" })

\* if tw.initialized { return nil }
CheckInitialized(c) ==
    /\ twPc[c].pc = "idle"
    /\ WorkerCalls < MaxWorkerCalls
    /\ twPc' = [twPc EXCEPT ![c].pc = IF twInitialized THEN "use" ELSE "create"]
    /\ UNCHANGED <<twInitialized, twOracle, twCreated, twUsed, notTwVars>>

\* oracle, err := NewWeatherOracle(config, tw.logger)
CreateOracle(c) ==
    /\ twPc[c].pc = "create"
    /\ twCreated' = twCreated + 1
    /\ twPc' = [twPc EXCEPT ![c] = [pc |-> "store", oracle |-> twCreated + 1]]
    /\ UNCHANGED <<twInitialized, twOracle, twUsed, notTwVars>>

\* tw.oracle = oracle
StoreOracle(c) ==
    /\ twPc[c].pc = "store"
    /\ twOracle' = twPc[c].oracle
    /\ twPc' = [twPc EXCEPT ![c].pc = "flag"]
    /\ UNCHANGED <<twInitialized, twCreated, twUsed, notTwVars>>

\* tw.initialized = true
SetInitialized(c) ==
    /\ twPc[c].pc = "flag"
    /\ twInitialized' = TRUE
    /\ twPc' = [twPc EXCEPT ![c].pc = "use"]
    /\ UNCHANGED <<twOracle, twCreated, twUsed, notTwVars>>

\* the rest of the call, which reads tw.oracle
UseOracle(c) ==
    /\ twPc[c].pc = "use"
    /\ twUsed' = Append(twUsed, twOracle)
    /\ twPc' = [twPc EXCEPT ![c] = [pc |-> "idle", oracle |-> 0]]
    /\ UNCHANGED <<twInitialized, twOracle, twCreated, notTwVars>>

NextWorker ==
    \/ \E c \in Callers : CheckInitialized(c)
    \/ \E c \in Callers : CreateOracle(c)
    \/ \E c \in Callers : StoreOracle(c)
    \/ \E c \in Callers : SetInitialized(c)
    \/ \E c \in Callers : UseOracle(c)

SpecWorker == InitWorker /\ [][NextWorker]_vars

\* ------------------------------------------------------------------------
\* The contract AVSTaskHook under any sequence of calls of its three hooks.
\* insuranceIntegration is address(0), as the constructor leaves it; the
\* payment of a task and totalFeesCollected are left out.
\* ------------------------------------------------------------------------

InitHook ==
    /\ AggInit
    /\ CeIdle
    /\ SelIdle
    /\ ExIdle
    /\ CpIdle
    /\ RtIdle
    /\ ShIdle
    /\ IdIdle
    /\ PvIdle
    /\ CaIdle
    /\ TwIdle
    /\ HkIdle

Reverted(call, reason) == [err |-> reason, call |-> call]
Returned(call) == [err |-> "ok", call |-> call]

\* tasksPerBlock[block.number] < MAX_TASKS_PER_BLOCK
underRateLimit(tasksInBlock) == tasksInBlock < MAX_TASKS_PER_BLOCK

\* a view function: it reverts or returns
validatePreTaskCreation(payloadLength) ==
    /\ hkLast' =
          IF ~underRateLimit(hkTasksPerBlock[hkBlock])
          THEN Reverted("validatePreTaskCreation", "Rate limit exceeded")
          ELSE IF payloadLength = 0
          THEN Reverted("validatePreTaskCreation", "Empty payload")
          ELSE Returned("validatePreTaskCreation")
    /\ UNCHANGED <<hkTasks, hkTasksPerBlock, hkBlock, hkCompleted, notHkVars>>

\* the calls of validatePostTaskCreation so far
Posts == SumSeq([i \in 1..(MaxBlock + 1) |-> hkTasksPerBlock[i - 1]])

validatePostTaskCreation(taskHash) ==
    /\ Posts < MaxPosts
    /\ hkTasks' = [hkTasks EXCEPT
                     ![taskHash] = [requester |-> "tx.origin",
                                    blockNumber |-> hkBlock,
                                    paid |-> TRUE, completed |-> FALSE]]
    /\ hkTasksPerBlock' = [hkTasksPerBlock EXCEPT ![hkBlock] = @ + 1]
    /\ hkLast' = Returned("validatePostTaskCreation")
    /\ UNCHANGED <<hkBlock, hkCompleted, notHkVars>>

\* the TaskCompleted events so far
Completions ==
    SumSeq([i \in 1..2 |->
              hkCompleted[IF i = 1 THEN "hash1" ELSE "hash2"]])

validateTaskResultSubmission(taskHash) ==
    LET task == hkTasks[taskHash]
        revert(reason) ==
            /\ hkLast' = Reverted("validateTaskResultSubmission", reason)
            /\ UNCHANGED <<hkTasks, hkCompleted>>
    IN /\ Completions < MaxCompletions
       /\ UNCHANGED <<hkTasksPerBlock, hkBlock, notHkVars>>
       /\ IF task.requester = "0x0" THEN revert("Task not found")
          ELSE IF task.completed THEN revert("Task already completed")
          ELSE IF ~task.paid THEN revert("Task not paid")
          ELSE /\ hkTasks' = [hkTasks EXCEPT ![taskHash].completed = TRUE]
               /\ hkCompleted' = [hkCompleted EXCEPT ![taskHash] = @ + 1]
               /\ hkLast' = Returned("validateTaskResultSubmission")

\* the next block is mined
NextBlock ==
    /\ hkBlock < MaxBlock
    /\ hkBlock' = hkBlock + 1
    /\ UNCHANGED <<hkTasks, hkTasksPerBlock, hkCompleted, hkLast, notHkVars>>

NextHook ==
    \/ \E payloadLength \in {0, 1} : validatePreTaskCreation(payloadLength)
    \/ \E taskHash \in TaskHashes : validatePostTaskCreation(taskHash)
    \/ \E taskHash \in TaskHashes : validateTaskResultSubmission(taskHash)
    \/ NextBlock

SpecHook == InitHook /\ [][NextHook]_vars

\* ------------------------------------------------------------------------
\* Properties
\* ------------------------------------------------------------------------

Present(t) == taskStates[t] # NoTask

Rank(status) ==
    CASE status = Pending -> 0
      [] status = Distributed -> 1
      [] status = Executing -> 2
      [] status = Aggregating -> 3
      [] status = Completed -> 4
      [] status = Failed -> 4

Terminal(status) == status \in {Completed, Failed}

OperatorsOf(responses) == { responses[i].OperatorID : i \in 1..Len(responses) }

Committed(taskState) ==
    { taskState.Operators[i] : i \in 1..Len(taskState.Operators) }

\* the k-th smallest of a sequence of numbers, by counting
KthSmallest(xs, k) ==
    CHOOSE v \in { xs[i] : i \in 1..Len(xs) } :
        /\ Cardinality({ i \in 1..Len(xs) : xs[i] < v }) < k
        /\ Cardinality({ i \in 1..Len(xs) : xs[i] <= v }) >= k

\* twice the median
Median2(xs) ==
    LET n == Len(xs)
    IN IF n % 2 = 1 THEN 2 * KthSmallest(xs, (n + 1) \div 2)
       ELSE KthSmallest(xs, n \div 2) + KthSmallest(xs, n \div 2 + 1)

\* four times the MAD, the floor 0.01 in place of zero
Mad4(xs) ==
    LET m2 == Median2(xs)
        d == Median2([i \in 1..Len(xs) |-> Abs(2 * xs[i] - m2)])
    IN IF d = 0 THEN 40 ELSE d

\* |x - median| <= 2.5 * MAD
Inlier(x, xs) == 4 * Abs(2 * x - Median2(xs)) <= 5 * Mad4(xs)

Kept(dataPoints) ==
    IF dataPoints = <<>> THEN <<>>
    ELSE SelectSeq(dataPoints,
                   LAMBDA dp : Inlier(dp.Temperature, Temperatures(dataPoints)))

\* dp carries the signature of operatorID over (operatorID, taskID, temperature)
Genuine(dp, operatorID, taskID) ==
    dp.Signature = <<operatorID, taskID, Fmt2(dp.Temperature)>>

RECURSIVE Flatten(_)
Flatten(ss) == IF ss = <<>> THEN <<>> ELSE Head(ss) \o Flatten(Tail(ss))

\* the genuine observations of a task, in the order of its responses
GenuineOf(taskState) ==
    Flatten([i \in 1..Len(taskState.Responses) |->
               SelectSeq(taskState.Responses[i].DataPoints,
                         LAMBDA dp : Genuine(dp, taskState.Responses[i].OperatorID,
                                             taskState.Task.TaskID))])

CarriesForged(taskState) ==
    \E i \in 1..Len(taskState.Responses) :
        \E j \in 1..Len(taskState.Responses[i].DataPoints) :
            ~Genuine(taskState.Responses[i].DataPoints[j],
                     taskState.Responses[i].OperatorID, taskState.Task.TaskID)

\* C1: the status of every task id only moves forward along Pending,
\* Distributed, Executing, Aggregating, (Completed | Failed), and a Completed
\* or Failed task never changes status again.
C1_StatusMonotonic ==
    [][\A t \in TaskIDs :
         Present(t) =>
           /\ Present(t)'
           /\ Rank(taskStates'[t].Status) >= Rank(taskStates[t].Status)
           /\ Terminal(taskStates[t].Status) =>
                taskStates'[t].Status = taskStates[t].Status]_vars

\* C2: a Completed task has at least min_operators accepted responses and a
\* stored ConsensusResult that keeps at least min_sources observations.
C2_QuorumOnCompleted ==
    \A t \in TaskIDs :
        (Present(t) /\ taskStates[t].Status = Completed) =>
            /\ Len(taskStates[t].Responses) >= MinOperators
            /\ taskStates[t].ConsensusResult # NoResult
            /\ Len(taskStates[t].ConsensusResult.DataPoints) >= MinSources

\* a task completed although the outlier filter dropped an observation
C2_Witness ==
    \E t \in TaskIDs :
        /\ Present(t)
        /\ taskStates[t].Status = Completed
        /\ Len(taskStates[t].ConsensusResult.DataPoints)
             < Len(GenuineOf(taskStates[t]))

\* C3: the accepted responses of a task hold at most one response of each
\* operator.
C3_SingleResponsePerOperator ==
    \A t \in TaskIDs :
        Present(t) =>
            \A i, j \in 1..Len(taskStates[t].Responses) :
                taskStates[t].Responses[i].OperatorID
                    = taskStates[t].Responses[j].OperatorID => i = j

\* an operator's second response has just been rejected
C3_Witness ==
    /\ lastOp.op = "CollectResponses"
    /\ lastOp.err = "duplicate response"
    /\ Present(lastOp.task)
    /\ lastOp.operator \in OperatorsOf(taskStates[lastOp.task].Responses)

\* C4: a distributed task with fewer than min_operators accepted responses
\* is Failed once response_timeout has elapsed.
C4_TimeoutFailsTask ==
    \A t \in TaskIDs :
        ( /\ lastOp.op = "WaitForCompletion"
          /\ lastOp.task = t
          /\ lastOp.err = "timeout"
          /\ Present(t)
          /\ taskStates[t].Operators # <<>>
          /\ Len(taskStates[t].Responses) < MinOperators )
        => taskStates[t].Status = Failed

\* C5: on one TaskState at most one tryAggregate invocation makes the
\* transition Executing -> Aggregating and the consensus engine runs at most
\* once; an invocation that does not make the transition changes nothing.
C5_TryAggregateIdempotent ==
    /\ [](\A t \in TaskIDs :
             Present(t) => /\ taskStates[t].nAggregating <= 1
                           /\ taskStates[t].nConsensus <= 1
                           /\ aggregatingOn[t] <= 1)
    /\ [][\A t \in TaskIDs :
            ( /\ lastOp'.op = "tryAggregate"
              /\ lastOp'.task = t
              /\ ~(Present(t) /\ taskStates[t].Status = Executing) )
            => /\ taskStates' = taskStates
               /\ aggregatingOn' = aggregatingOn]_vars

\* a second tryAggregate invocation found the transition already made and
\* returned
C5_Witness ==
    /\ lastOp.op = "tryAggregate"
    /\ lastOp.err = "return"
    /\ Present(lastOp.task)
    /\ taskStates[lastOp.task].nAggregating = 1

\* C6: CreateTask with a task id that is already present fails with
\* DuplicateTaskID and leaves the existing TaskState as it is.
C6_DuplicateCreateRejected ==
    [][\A t \in TaskIDs :
         (Present(t) /\ lastOp'.op = "CreateTask" /\ lastOp'.task = t)
         => /\ lastOp'.err # "ok"
            /\ taskStates'[t] = taskStates[t]]_vars

\* C7: a CollectResponses call for an operator outside the committed set, or
\* for one that has already submitted, returns an error and leaves the
\* accepted responses unchanged.
C7_RejectedLeavesResponses ==
    [][\A t \in TaskIDs :
         ( /\ lastOp'.op = "CollectResponses"
           /\ lastOp'.task = t
           /\ Present(t)
           /\ \/ lastOp'.operator \notin Committed(taskStates[t])
              \/ lastOp'.operator \in OperatorsOf(taskStates[t].Responses) )
         => /\ lastOp'.err # "ok"
            /\ taskStates'[t].Responses = taskStates[t].Responses]_vars

\* an unassigned operator's response has just been rejected while the task
\* was collecting
C7_Witness ==
    /\ lastOp.op = "CollectResponses"
    /\ lastOp.err = "operator not assigned"
    /\ Present(lastOp.task)
    /\ Len(taskStates[lastOp.task].Responses) > 0

\* C8: a response that arrives while the task is Pending, Aggregating,
\* Completed or Failed is rejected with an error and changes nothing of the
\* task; a response is accepted only in Distributed or Executing.
C8_CollectOnlyWhileCollecting ==
    [][\A t \in TaskIDs :
         (lastOp'.op = "CollectResponses" /\ lastOp'.task = t /\ Present(t))
         => /\ taskStates[t].Status \in {Pending, Aggregating, Completed, Failed}
                => (lastOp'.err # "ok" /\ taskStates'[t] = taskStates[t])
            /\ lastOp'.err = "ok"
                => taskStates[t].Status \in {Distributed, Executing}]_vars

\* a response has just been rejected by a Completed task
C8_Witness ==
    /\ lastOp.op = "CollectResponses"
    /\ lastOp.err = "not in correct state"
    /\ Present(lastOp.task)
    /\ taskStates[lastOp.task].Status = Completed

\* C9: every observation kept by a Completed task is a genuine observation
\* of one of its responses (the kept list is the outlier-filtered list of
\* the genuine ones), and a task does not fail when at least min_sources
\* genuine observations survive the outlier filter.
C9_ForgedDroppedNotFatal ==
    \A t \in TaskIDs :
        Present(t) =>
            /\ taskStates[t].Status = Completed =>
                 /\ taskStates[t].ConsensusResult # NoResult
                 /\ taskStates[t].ConsensusResult.DataPoints
                      = Kept(GenuineOf(taskStates[t]))
                 /\ \A k \in 1..Len(taskStates[t].ConsensusResult.DataPoints) :
                      \E i \in 1..Len(taskStates[t].Responses) :
                        \E j \in 1..Len(taskStates[t].Responses[i].DataPoints) :
                          /\ taskStates[t].Responses[i].DataPoints[j]
                               = taskStates[t].ConsensusResult.DataPoints[k]
                          /\ Genuine(taskStates[t].Responses[i].DataPoints[j],
                                     taskStates[t].Responses[i].OperatorID, t)
            /\ taskStates[t].Status = Failed =>
                 Len(Kept(GenuineOf(taskStates[t]))) < MinSources

\* a task that carried a forged observation has completed
C9_Witness ==
    \E t \in TaskIDs :
        /\ Present(t)
        /\ taskStates[t].Status = Completed
        /\ CarriesForged(taskStates[t])

\* C10: ReachConsensus keeps exactly the observations within mad_threshold
\* MADs of the median (0.01 for a zero MAD), in input order, and returns an
\* error and no result when fewer than min_sources are supplied or kept.
C10_FilterExact ==
    ceOutput # NotCalled =>
        IF Len(ceInput) < MinSources \/ Len(Kept(ceInput)) < MinSources
        THEN ceOutput.err # "ok" /\ ceOutput.result = NoResult
        ELSE ceOutput.err = "ok" /\ ceOutput.result.DataPoints = Kept(ceInput)

\* a result that kept an observation lying exactly on the cutoff and dropped
\* an outlier
C10_Witness ==
    /\ ceOutput # NotCalled
    /\ ceOutput.err = "ok"
    /\ Len(ceOutput.result.DataPoints) < Len(ceInput)
    /\ \E k \in 1..Len(ceOutput.result.DataPoints) :
         4 * Abs(2 * ceOutput.result.DataPoints[k].Temperature
                   - Median2(Temperatures(ceInput)))
           = 5 * Mad4(Temperatures(ceInput))

\* C14: the stored result of every Completed task has MeetsThreshold true
\* exactly when its consensus value is greater than or equal to the task's
\* threshold.
C14_MeetsThreshold ==
    \A t \in TaskIDs :
        (Present(t) /\ taskStates[t].Status = Completed) =>
            LET result == taskStates[t].ConsensusResult
            IN result.MeetsThreshold
                 <=> (result.Temperature.num
                        >= taskStates[t].Task.Threshold * result.Temperature.den)

\* a task has completed with a consensus value equal to its threshold
C14_Witness ==
    \E t \in TaskIDs :
        /\ Present(t)
        /\ taskStates[t].Status = Completed
        /\ taskStates[t].ConsensusResult.Temperature
             = [num |-> taskStates[t].Task.Threshold, den |-> 1]
        /\ taskStates[t].ConsensusResult.MeetsThreshold

HonestOf == SubSeq(ceInput, 1, ceHonest)

OutliersOf == SubSeq(ceInput, ceHonest + 1, Len(ceInput))

MinOf(xs) == CHOOSE v \in { xs[i] : i \in 1..Len(xs) } :
                \A i \in 1..Len(xs) : v <= xs[i]

MaxOf(xs) == CHOOSE v \in { xs[i] : i \in 1..Len(xs) } :
                \A i \in 1..Len(xs) : v >= xs[i]

\* the fraction value lies within [min, max] of the numbers xs
WithinSpread(value, xs) ==
    /\ MinOf(xs) * value.den <= value.num
    /\ value.num <= MaxOf(xs) * value.den

\* |x - median| >= 2.5 * MAD, median and MAD (0.01 for zero) those of xs
AtLeastKMadAway(x, xs) == 4 * Abs(2 * x - Median2(xs)) >= 5 * Mad4(xs)

\* x lies more than 2.5 times the spread of xs (0.01 for a zero spread) from
\* every one of xs
BeyondSpread(x, xs) ==
    LET spread == MaxOf(xs) - MinOf(xs)
        s == IF spread < MadFloor THEN MadFloor ELSE spread
    IN \A i \in 1..Len(xs) :
          MadThresholdDen * Abs(x - xs[i]) > MadThresholdNum * s

\* C11: of N observations the last N \div 2 are outliers that lie at least
\* 2.5 MAD from the median of the honest ones; whenever ReachConsensus
\* returns a result, its value lies within [min, max] of the honest
\* observations.
C11_MadRobust ==
    ( /\ ceHonest > 0
      /\ ceOutput # NotCalled
      /\ ceOutput.err = "ok"
      /\ \A i \in 1..Len(OutliersOf) :
            AtLeastKMadAway(OutliersOf[i].Temperature, Temperatures(HonestOf)) )
    => WithinSpread(ceOutput.result.Temperature, Temperatures(HonestOf))

\* C11, amended: of an odd number N of observations the last N \div 2 are
\* outliers that lie more than 2.5 times the spread of the honest ones (0.01
\* for a zero spread) from every honest observation; whenever ReachConsensus
\* returns a result, it keeps exactly the honest observations and its value
\* lies within their [min, max].
C11_MadRobustMajority ==
    ( /\ ceHonest > 0
      /\ ceOutput # NotCalled
      /\ ceOutput.err = "ok"
      /\ Len(ceInput) % 2 = 1
      /\ \A i \in 1..Len(OutliersOf) :
            BeyondSpread(OutliersOf[i].Temperature, Temperatures(HonestOf)) )
    => /\ ceOutput.result.DataPoints = HonestOf
       /\ WithinSpread(ceOutput.result.Temperature, Temperatures(HonestOf))

\* a result for five observations of which two are outliers far beyond the
\* spread of the three honest, distinct ones
C11_Witness ==
    /\ ceHonest = 3
    /\ Len(ceInput) = 5
    /\ ceOutput # NotCalled
    /\ ceOutput.err = "ok"
    /\ MaxOf(Temperatures(HonestOf)) > MinOf(Temperatures(HonestOf))
    /\ \A i \in 1..Len(OutliersOf) :
          BeyondSpread(OutliersOf[i].Temperature, Temperatures(HonestOf))

\* C12: two ReachConsensus invocations on the same observation list return
\* the same value and aggregated signature, whenever each of them happens
\* (the confidence, computed from the same weights as the value, is left
\* out: the model carries what it is computed from, not its number).
C12_Pure ==
    (ceOutput # NotCalled /\ ceAgain # NotCalled) =>
        /\ ceAgain.err = ceOutput.err
        /\ ceOutput.err = "ok" =>
             /\ ceAgain.result.Temperature = ceOutput.result.Temperature
             /\ ceAgain.result.AggregatedSig = ceOutput.result.AggregatedSig

C15_WaitForCompletion ==
    /\ [](\A t \in TaskIDs : waiter[t].ticks <= TimeoutTicks)
    /\ [][\A t \in TaskIDs :
            ( /\ waiter[t].pc = "waiting"
              /\ waiter'[t].pc = "idle" )
            => /\ lastOp'.op = "WaitForCompletion"
               /\ lastOp'.err \in {"ok", "not found", "failed", "timeout", "cancelled"}
               /\ lastOp'.err # "cancelled" =>
                    /\ lastOp'.err = "ok"
                         <=> (Present(t) /\ taskStates[t].Status = Completed)
                    /\ lastOp'.err = "not found" <=> ~Present(t)
                    /\ lastOp'.err = "failed"
                         <=> (Present(t) /\ taskStates[t].Status = Failed)
                    /\ lastOp'.err = "timeout" => waiter[t].ticks = TimeoutTicks
               /\ IF lastOp'.err = "ok"
                  THEN /\ lastOp'.result = taskStates[t].ConsensusResult
                       /\ lastOp'.result # NoResult
                  ELSE lastOp'.result = NoResult]_vars

\* a WaitForCompletion call has returned the stored result of a Completed
\* task
C15_Witness ==
    /\ lastOp.op = "WaitForCompletion"
    /\ lastOp.err = "ok"
    /\ Present(lastOp.task)
    /\ taskStates[lastOp.task].Status = Completed
    /\ lastOp.result = taskStates[lastOp.task].ConsensusResult

\* C16: ExecuteTask returns an error only if no assigned source had returned
\* an observation; when at least one had, it returns an OperatorResponse
\* that holds every observation obtained.
C16_FailsOnlyWithoutObservations ==
    (exReturn # NotReturned /\ Len(exReturn.obtained) > 0) =>
        /\ exReturn.err = "ok"
        /\ exReturn.response.DataPoints = exReturn.obtained

\* the perils of the response of a decided claim
Perils == cpOutput.result.TriggeredPerils

\* the largest payout ratio of the triggered perils, 0 when there is none
ChosenRatio(perils) ==
    IF perils = <<>> THEN 0
    ELSE CHOOSE r \in { perils[i].PayoutRatio : i \in 1..Len(perils) } :
           \A i \in 1..Len(perils) : perils[i].PayoutRatio <= r

\* C17: the status of a claim inside the policy period is rejected with
\* payout 0 when no trigger fired; otherwise investigate when the evidence
\* confidence of a triggered peril is below 0.7; otherwise partial when the
\* largest payout ratio of the triggered perils is below 1.0, and approved
\* when it is not.
C17_StatusRules ==
    cpOutput.err = "ok" =>
        IF Perils = <<>>
        THEN /\ cpOutput.result.ClaimStatus = ClaimRejected
             /\ cpOutput.result.PayoutAmount = 0
        ELSE IF \E i \in 1..Len(Perils) :
                  Perils[i].Evidence.Confidence < InvestigateBelow
        THEN cpOutput.result.ClaimStatus = ClaimInvestigate
        ELSE IF ChosenRatio(Perils) < RatioOne
        THEN cpOutput.result.ClaimStatus = ClaimPartial
        ELSE cpOutput.result.ClaimStatus = ClaimApproved

\* C18: the payout of a claim inside the policy period is the coverage times
\* the largest payout ratio of the triggered perils, and 0 when none
\* triggered; the same triggers, observations and date under another
\* coverage give a payout in the proportion of the coverages.
C18_Payout ==
    cpOutput.err = "ok" =>
        /\ cpOutput.result.PayoutAmount
             = cpInput.policy.CoverageAmount * ChosenRatio(Perils)
        /\ \A other \in Policies :
             other.Triggers = cpInput.policy.Triggers =>
               ProcessClaim(other, cpInput.weatherData,
                            cpInput.claimDate).result.PayoutAmount
                   * cpInput.policy.CoverageAmount
                 = cpOutput.result.PayoutAmount * other.CoverageAmount

\* a claim inside the period has been decided with two triggered perils of
\* different payout ratios
C18_Witness ==
    /\ cpOutput.err = "ok"
    /\ Len(Perils) = 2
    /\ Perils[1].PayoutRatio < Perils[2].PayoutRatio
    /\ cpOutput.result.PayoutAmount > 0

\* the observations of the claim fire a trigger of the policy at some date
FiresAtSomeDate ==
    \E date \in ClaimDates :
       evaluateTriggers(cpInput.policy, cpInput.weatherData, date) # <<>>

\* C19: a claim dated before the first or after the last day of the policy
\* is decided rejected with payout 0 and no triggered peril, and the error
\* says that the date is outside the period; a claim dated on the first or
\* on the last day is decided from its triggers, without that error.
C19_OutOfPolicyPeriod ==
    cpOutput # NotCalled =>
        /\ (cpInput.claimDate < cpInput.policy.StartDate
              \/ cpInput.claimDate > cpInput.policy.EndDate) =>
             /\ cpOutput.err = "claim date outside policy period"
             /\ cpOutput.result.ClaimStatus = ClaimRejected
             /\ cpOutput.result.PayoutAmount = 0
             /\ cpOutput.result.TriggeredPerils = <<>>
        /\ cpInput.claimDate \in {cpInput.policy.StartDate,
                                  cpInput.policy.EndDate} =>
             /\ cpOutput.err = "ok"
             /\ Perils = evaluateTriggers(cpInput.policy, cpInput.weatherData,
                                          cpInput.claimDate)

\* a claim dated after the last day of the policy, whose observations fire
\* a trigger inside the period, has been rejected
C19_Witness ==
    /\ cpOutput # NotCalled
    /\ cpInput.claimDate > cpInput.policy.EndDate
    /\ FiresAtSomeDate
    /\ cpOutput.result.ClaimStatus = ClaimRejected

\* requiredDays observations in a row are above the threshold
RunAbove(weatherData, threshold, requiredDays) ==
    \E first \in 1..Len(weatherData) :
       /\ first + requiredDays - 1 <= Len(weatherData)
       /\ \A i \in first..(first + requiredDays - 1) :
            weatherData[i].Temperature > threshold

\* the month of the date is in the window of the trigger, when it has one
InWindow(trigger, date) ==
    LET window == trigger.Conditions.TimeWindow
    IN window # NoWindow =>
         IF window.StartMonth <= window.EndMonth
         THEN Month(date) \in window.StartMonth..window.EndMonth
         ELSE Month(date) \notin (window.EndMonth + 1)..(window.StartMonth - 1)

\* the trigger is among the triggered perils of the response
Fired(trigger) ==
    \E i \in 1..Len(Perils) : Perils[i].TriggerID = trigger.TriggerID

\* C20: in a claim inside the policy period with observations, a trigger
\* with only temp_max set fires when the largest observation is above
\* temp_max, its consecutive days and its time window permitting, and a
\* trigger with only temp_min set, no consecutive days and no time window
\* fires when the smallest observation is below temp_min.
C20_TemperatureBounds ==
    (cpOutput.err = "ok" /\ cpInput.weatherData # <<>>) =>
        \A i \in 1..Len(cpInput.policy.Triggers) :
           LET trigger == cpInput.policy.Triggers[i]
               conditions == trigger.Conditions
               temps == Temperatures(cpInput.weatherData)
           IN /\ (/\ conditions.TemperatureMax # Nil
                  /\ conditions.TemperatureMin = Nil
                  /\ conditions.ConsecutiveDays > 0 =>
                       RunAbove(cpInput.weatherData,
                                conditions.TemperatureMax.value,
                                conditions.ConsecutiveDays)
                  /\ InWindow(trigger, cpInput.claimDate))
                    => (Fired(trigger)
                          <=> MaxOf(temps) > conditions.TemperatureMax.value)
              /\ (/\ conditions.TemperatureMin # Nil
                  /\ conditions.TemperatureMax = Nil
                  /\ conditions.ConsecutiveDays = 0
                  /\ InWindow(trigger, cpInput.claimDate))
                    => (Fired(trigger)
                          <=> MinOf(temps) < conditions.TemperatureMin.value)

\* the i-th trigger of the policy of the claim
PolicyTrigger(i) == cpInput.policy.Triggers[i]

\* the trigger has only temp_max set
OnlyTemperatureMax(trigger) ==
    /\ trigger.Conditions.TemperatureMax # Nil
    /\ trigger.Conditions.TemperatureMin = Nil

WindowMonths(window) ==
    IF window.StartMonth <= window.EndMonth
    THEN window.StartMonth..window.EndMonth
    ELSE (window.StartMonth..12) \cup (1..window.EndMonth)

\* C22: a fired trigger with a month window has the month of the claim
\* date among the months of its window, and a trigger with only temp_max
\* set, whose temperature and consecutive days are met, fires when the
\* month is in its window; the window 11..2 holds December and January
\* and not March.
C22_TimeWindow ==
    /\ WindowMonths([StartMonth |-> 11, EndMonth |-> 2]) = {11, 12, 1, 2}
    /\ cpOutput.err = "ok" =>
         \A i \in 1..Len(cpInput.policy.Triggers) :
            LET conditions == PolicyTrigger(i).Conditions
            IN conditions.TimeWindow # NoWindow =>
                 /\ Fired(PolicyTrigger(i)) =>
                      Month(cpInput.claimDate)
                         \in WindowMonths(conditions.TimeWindow)
                 /\ (/\ OnlyTemperatureMax(PolicyTrigger(i))
                     /\ RunAbove(cpInput.weatherData,
                                 conditions.TemperatureMax.value,
                                 IF conditions.ConsecutiveDays > 0
                                 THEN conditions.ConsecutiveDays ELSE 1)
                     /\ Month(cpInput.claimDate)
                          \in WindowMonths(conditions.TimeWindow))
                      => Fired(PolicyTrigger(i))

\* a trigger with the window 11..2 has fired for a claim dated in December
\* or January
C22_Witness ==
    /\ cpOutput.err = "ok"
    /\ Month(cpInput.claimDate) \in {12, 1}
    /\ \E i \in 1..Len(cpInput.policy.Triggers) :
         /\ PolicyTrigger(i).Conditions.TimeWindow
              = [StartMonth |-> 11, EndMonth |-> 2]
         /\ Fired(PolicyTrigger(i))

\* C23: HandleTask on an insurance_claim envelope that ValidateTask accepts
\* returns no error: it returns a response with the task id of the request
\* and a claim decision, whatever the claim date, the triggers and the
\* outcome of the weather verification.
C23_ClaimNeverFailsRpc ==
    (/\ rtResponse # NotCalled
     /\ rtRequest.Payload.type = TaskTypeInsuranceClaim
     /\ ValidateTask(rtRequest) = "ok") =>
        /\ rtResponse.err = "ok"
        /\ rtResponse.result.TaskId = rtRequest.TaskId
        /\ rtResponse.result.Result.ClaimStatus
             \in {ClaimApproved, ClaimRejected, ClaimPartial, ClaimInvestigate}

\* the envelope is JSON of a known type whose latitude, longitude and, in
\* a weather_check, threshold are within their bounds
InRange(payload) ==
    /\ payload.syntax = "ok"
    /\ payload.type \in {TaskTypeWeatherCheck, TaskTypeInsuranceClaim,
                          TaskTypeLiveWeatherDemo}
    /\ payload.latitude \in (-MaxLatitude)..MaxLatitude
    /\ payload.longitude \in (-MaxLongitude)..MaxLongitude
    /\ payload.type = TaskTypeWeatherCheck =>
         payload.threshold \in (-MaxThreshold)..MaxThreshold

\* the policy of an insurance_claim envelope has an id, a positive coverage
\* and a trigger
PolicyPresent(payload) ==
    payload.type = TaskTypeInsuranceClaim =>
        /\ payload.policy.PolicyID # ""
        /\ payload.policy.CoverageAmount > 0
        /\ payload.policy.Triggers # <<>>

\* C24: ValidateTask returns an error for an envelope that is not JSON, has
\* no or an unknown type, or has a latitude outside [-90, 90], a longitude
\* outside [-180, 180] or, in a weather_check, a threshold outside
\* [-100, 100]; it accepts an envelope within these bounds, the bounds
\* included, whose policy, if it is an insurance claim, is present.
C24_ValidateTask ==
    rtValidated # NotCalled =>
        /\ ~InRange(rtRequest.Payload) => rtValidated.err # "ok"
        /\ (InRange(rtRequest.Payload) /\ PolicyPresent(rtRequest.Payload))
             => rtValidated.err = "ok"

\* C25: a task whose status is Executing has at least one accepted
\* response in its response list.
C25_ExecutingHasResponse ==
    \A t \in TaskIDs :
       (Present(t) /\ taskStates[t].Status = Executing) =>
           Len(taskStates[t].Responses) >= 1

\* C26: when the tryAggregate goroutines get to run, a task whose accepted
\* responses have reached min_operators is eventually Completed or Failed.
C26_EventuallyTerminal ==
    \A t \in TaskIDs :
       (Present(t) /\ Len(taskStates[t].Responses) >= MinOperators)
          ~> (Present(t) /\ Terminal(taskStates[t].Status))

\* the least whole number that is at least n / m
CeilDiv(n, m) == (n + m - 1) \div m

\* the subset is a run of the list, taken from one of its positions on
Contiguous(subset, list) ==
    \E first \in 1..Len(list) :
       /\ first + Len(subset) - 1 <= Len(list)
       /\ subset = SubSeq(list, first, first + Len(subset) - 1)

\* C28: the subsets made of a non-empty list of sources are contiguous
\* runs of at most ceil(|sources| / |operators|) sources, every operator
\* receives a non-empty one, and every source is in the subset of at least
\* one operator.
C28_Sharding ==
    (shOutput.err = "ok" /\ shInput.availableAPIs # <<>>) =>
        /\ \A i \in 1..Len(shInput.operators) :
             /\ shOutput.result[i] # <<>>
             /\ Len(shOutput.result[i])
                  <= CeilDiv(Len(shInput.availableAPIs),
                             Len(shInput.operators))
             /\ Contiguous(shOutput.result[i], shInput.availableAPIs)
        /\ \A k \in 1..Len(shInput.availableAPIs) :
             \E i \in 1..Len(shInput.operators) :
                \E j \in 1..Len(shOutput.result[i]) :
                   shOutput.result[i][j] = shInput.availableAPIs[k]

\* C30: the task ids that generateTaskID has returned are pairwise
\* distinct, also when calls of it overlap.
C30_DistinctTaskIDs ==
    \A i, j \in 1..Len(idIssued) :
       i # j => idIssued[i] # idIssued[j]

\* C29: the fetches an executor has in flight are exactly the semaphore
\* slots taken, never more than max_concurrent of them; once the goroutines
\* of a task have ended (with an observation, an error or a cancelled
\* context) no slot is held, so the next task starts with all slots free.
inFlight == Cardinality({source \in DataSources : exPc[source] = "fetching"})

C29_SemaphoreBound ==
    /\ inFlight = exHeld
    /\ exHeld <= MaxConcurrent
    /\ allGoroutinesDone => exHeld = 0

\* the second task has all slots taken and a fourth fetch waiting, after a
\* first task that ended on its deadline with failed fetches
C29_Witness ==
    /\ exTasks = 2
    /\ exHeld = MaxConcurrent
    /\ \E source \in DataSources : exPc[source] = "queued"

\* C27: an executor that ends with zero observations is a non-response of
\* its operator: its end changes neither the accepted responses nor the
\* aggregations scheduled nor collectedCount, and every response the
\* aggregator has accepted carries at least one observation.
ZeroObservationsEnd(o) ==
    /\ pvExecutors.outcome[o] = "running"
    /\ pvExecutors'.outcome[o] = NoDataPoints

SourcesOf(dataPoints) == { dataPoints[i].Source : i \in 1..Len(dataPoints) }

C31_DistinctSources ==
    \A t \in TaskIDs :
        (Present(t) /\ taskStates[t].Status = Completed)
            => Cardinality(SourcesOf(taskStates[t].ConsensusResult.DataPoints))
                  >= MinSources

\* C32: HandleTask on an envelope that ValidateTask rejects returns an
\* error, and so neither a verification result nor a claim decision.
C32_RejectedNotDispatched ==
    (rtResponse # NotCalled /\ ValidateTask(rtRequest) # "ok")
        => rtResponse.err # "ok"

\* C33: ValidateTask accepts an insurance_claim envelope only when the
\* coverage of its policy is positive, its start is not after its end and
\* the payout ratio of every trigger lies in [0, 1]; the payout of a claim
\* on an accepted envelope does not exceed the coverage.
C33_PolicyInvariants ==
    LET policy == rtRequest.Payload.policy
    IN rtRequest.Payload.type = TaskTypeInsuranceClaim =>
         /\ (rtValidated # NotCalled /\ rtValidated.err = "ok") =>
               /\ policy.CoverageAmount > 0
               /\ policy.StartDate <= policy.EndDate
               /\ \A i \in 1..Len(policy.Triggers) :
                     policy.Triggers[i].PayoutRatio \in 0..RatioOne
         /\ (/\ rtResponse # NotCalled
             /\ rtResponse.err = "ok"
             /\ ValidateTask(rtRequest) = "ok") =>
               rtResponse.result.Result.PayoutAmount <= policy.CoverageAmount

\* C34: a Get that returns an entry returns one that has not expired at
\* the time of the call: the entry was set at most ttl before it, whether
\* cleanup has removed the expired entries or not.
C34_NoExpiredRead ==
    (caGot # NotCalled /\ caGot.err = "hit")
        => /\ caGot.data.Timestamp + caTtl >= caGot.at
           /\ caGot.data.Source = caGot.key

\* a Get has just returned an entry on the last tick of its life, while the
\* map holds an expired entry that cleanup has not removed
C34_Witness ==
    /\ caGot # NotCalled
    /\ caGot.err = "hit"
    /\ caGot.at = caClock
    /\ caGot.data.Timestamp + caTtl = caGot.at
    /\ \E key \in CacheKeys :
          /\ caEntries[key] # NoEntry
          /\ caEntries[key].ExpiresAt < caClock

\* C35: at most one WeatherOracle is ever made, and every call that has
\* finished used that one instance.
C35_OneOracle ==
    /\ twCreated <= 1
    /\ \A i \in 1..Len(twUsed) : twUsed[i] = 1

\* C36: on observations whose wind is all at or above the wind_speed_min of
\* a trigger with no other bound the trigger fires, and on observations
\* whose wind is all below the wind_speed_min of a trigger it does not;
\* likewise a trigger with only humidity_max fires when all humidity is
\* above it, and a trigger with humidity_max does not when none is.
Observed(field) ==
    { cpInput.observed[k][field] : k \in 1..Len(cpInput.observed) }

C36_OtherBounds ==
    (cpOutput.err = "ok" /\ cpInput.observed # <<>>) =>
        \A i \in 1..Len(cpInput.policy.Triggers) :
           LET conditions == PolicyTrigger(i).Conditions
           IN /\ (/\ conditions.WindSpeedMin # Nil
                  /\ conditions.TemperatureMax = Nil
                  /\ \A w \in Observed("WindSpeed") :
                        w >= conditions.WindSpeedMin.value)
                    => Fired(PolicyTrigger(i))
              /\ (/\ conditions.WindSpeedMin # Nil
                  /\ \A w \in Observed("WindSpeed") :
                        w < conditions.WindSpeedMin.value)
                    => ~Fired(PolicyTrigger(i))
              /\ (/\ conditions.HumidityMax # Nil
                  /\ \A h \in Observed("Humidity") :
                        h > conditions.HumidityMax.value)
                    => Fired(PolicyTrigger(i))
              /\ (/\ conditions.HumidityMax # Nil
                  /\ \A h \in Observed("Humidity") :
                        h <= conditions.HumidityMax.value)
                    => ~Fired(PolicyTrigger(i))

\* C37: the weight of every kept observation is
\* max(0.1, agePenalty x confidence x sourceReliability), and of two kept
\* observations of one source and one age the one with the lower confidence
\* has no larger weight.
ExpectedWeight(dp) ==
    LET weight == agePenalty(now - dp.Timestamp) * dp.Confidence
                    * getSourceReliabilityScore(dp.Source)
    IN IF weight < MinWeight THEN MinWeight ELSE weight

C37_ConfidenceWeight ==
    (ceOutput # NotCalled /\ ceOutput.err = "ok") =>
        LET kept == ceOutput.result.DataPoints
            weights == ceOutput.result.Confidence.weights
        IN /\ \A i \in 1..Len(kept) : weights[i] = ExpectedWeight(kept[i])
           /\ \A i, j \in 1..Len(kept) :
                 (/\ kept[i].Source = kept[j].Source
                  /\ kept[i].Timestamp = kept[j].Timestamp
                  /\ kept[i].Confidence <= kept[j].Confidence)
                    => weights[i] <= weights[j]

\* C38: for every result of ReachConsensus the consensus value lies within
\* [min, max] of the temperatures of the kept observations, the sum of
\* their weights is positive, and the confidence lies in [0, 1].
ConfidenceOfResult ==
    confidenceOf(ceOutput.result.Confidence.weights,
                 ceOutput.result.Confidence.temperatures,
                 ceOutput.result.Temperature)

C38_ValueWeightConfidence ==
    (ceOutput # NotCalled /\ ceOutput.err = "ok") =>
        /\ WithinSpread(ceOutput.result.Temperature,
                        Temperatures(ceOutput.result.DataPoints))
        /\ SumSeq(ceOutput.result.Confidence.weights) > 0
        /\ ceOutput.result.Confidence.temperatures
             = Temperatures(ceOutput.result.DataPoints)
        /\ ConfidenceOfResult \in 0..1000

\* a result that kept observations 40 degrees apart, whose confidence is 0
C38_Witness ==
    /\ ceOutput # NotCalled
    /\ ceOutput.err = "ok"
    /\ MaxOf(Temperatures(ceOutput.result.DataPoints))
         - MinOf(Temperatures(ceOutput.result.DataPoints)) = 4000
    /\ ConfidenceOfResult = 0

\* C39: a result submission that succeeds is for a task hash that was
\* recorded, is paid and was not completed, and it marks the task
\* completed; over any sequence of hook calls at most one result submission
\* succeeds for a task hash.
C39_CompletedOnce ==
    [][ \A taskHash \in TaskHashes :
          /\ hkCompleted'[taskHash] # hkCompleted[taskHash]
               => /\ hkTasks[taskHash].requester # "0x0"
                  /\ hkTasks[taskHash].paid
                  /\ ~hkTasks[taskHash].completed
                  /\ hkTasks'[taskHash].completed
          /\ hkCompleted'[taskHash] <= 1 ]_vars

\* C40: the counter of the tasks created in a block never exceeds
\* MAX_TASKS_PER_BLOCK, and validatePreTaskCreation reverts with "Rate limit
\* exceeded" once the counter of the current block has reached it.
C40_RateLimit ==
    /\ \A b \in 0..MaxBlock : hkTasksPerBlock[b] <= MAX_TASKS_PER_BLOCK
    /\ (/\ hkLast # NotCalled
        /\ hkLast.call = "validatePreTaskCreation"
        /\ hkLast.err = "ok")
          => hkTasksPerBlock[hkBlock] < MAX_TASKS_PER_BLOCK

====
